---- MODULE Spec2Model ----
(***************************************************************************)
(* Resume ingestion and ATS scoring of the HR management portal.           *)
(*                                                                         *)
(*  - utils/atsScoring.js  : calculateATSScore, calculateAllJobRoleScores  *)
(*  - utils/resumeParser.js: splitMultipleResumes, parseResumeData         *)
(*  - routes/upload.js     : POST /resume and POST /bulk-resumes           *)
(*  - routes/candidates.js : PATCH /:id/status and DELETE /:id             *)
(*  - routes/jobRoles.js   : POST /, PUT /:id and DELETE /:id              *)
(*                                                                         *)
(* Strings are sequences of one-character strings, so that toLowerCase     *)
(* and String.prototype.includes are computed, not assumed.  Skill weights *)
(* are kept in tenths (the schema allows 0.1 .. 5), so that the weighted   *)
(* ratio is an exact rational numerator/denominator pair.                  *)
(***************************************************************************)
EXTENDS Integers, Sequences, FiniteSets, TLC

VARIABLES
    call,        \* the pure-function call under examination (or NoCall)
    ret,         \* its return value (or NoRet)
    jobRolesDb,  \* JobRole collection: set of job role documents
    candidates,  \* Candidate collection: sequence of persisted documents, in save order
    disk,        \* uploads directory: set of file paths that exist
    reqs         \* the upload requests in service, by connection slot

vars == <<call, ret, jobRolesDb, candidates, disk, reqs>>

----------------------------------------------------------------------------
(* Bounds of the model *)

MaxSkills == 2      \* required skills per job role
MaxYears == 8       \* candidate experience years
MaxEdu == 1         \* education entries per candidate

----------------------------------------------------------------------------
(* Strings *)

UpperAlpha == <<"A","B","C","D","E","F","G","H","I","J","K","L","M",
                "N","O","P","Q","R","S","T","U","V","W","X","Y","Z">>
LowerAlpha == <<"a","b","c","d","e","f","g","h","i","j","k","l","m",
                "n","o","p","q","r","s","t","u","v","w","x","y","z">>

LowerChar(c) ==
    IF \E i \in 1..26 : UpperAlpha[i] = c
    THEN LowerAlpha[CHOOSE i \in 1..26 : UpperAlpha[i] = c]
    ELSE c

\* String.prototype.toLowerCase
toLowerCase(s) == [i \in 1..Len(s) |-> LowerChar(s[i])]

\* String.prototype.includes: sub occurs in s as a contiguous substring
includes(s, sub) ==
    \E k \in 0..(Len(s) - Len(sub)) :
        \A i \in 1..Len(sub) : s[k + i] = sub[i]

\* the characters of a string literal
Chars(str) == [i \in 1..Len(str) |-> SubSeq(str, i, i)]

\* the character at a 0-based offset; "" outside the string
At(t, i) == IF i >= 0 /\ i < Len(t) THEN t[i + 1] ELSE ""

\* String.prototype.slice(a, b) for 0 <= a, b <= length
slice(t, a, b) == IF a < b THEN SubSeq(t, a + 1, b) ELSE <<>>

WhiteSpace == {" ", "\t", "\n", "\r"}

\* String.prototype.trim
trim(t) ==
    IF \A i \in 1..Len(t) : t[i] \in WhiteSpace
    THEN <<>>
    ELSE LET first == CHOOSE i \in 1..Len(t) :
                         t[i] \notin WhiteSpace /\ \A k \in 1..(i - 1) : t[k] \in WhiteSpace
             last == CHOOSE i \in 1..Len(t) :
                         t[i] \notin WhiteSpace /\ \A k \in (i + 1)..Len(t) : t[k] \in WhiteSpace
         IN  SubSeq(t, first, last)

\* Math.round on the non-negative rational num/den: floor(num/den + 0.5)
MathRound(num, den) == (2 * num + den) \div (2 * den)

MathMin(a, b) == IF a < b THEN a ELSE b

----------------------------------------------------------------------------
(* utils/atsScoring.js *)

\* requiredSkill.weight || 1   (tenths: 1 is 10)
WeightOf(requiredSkill) ==
    IF requiredSkill.weight = 0 THEN 10 ELSE requiredSkill.weight

\* candidateData.skills.map(skill => skill.toLowerCase())
candidateSkills(candidateData) ==
    {toLowerCase(s) : s \in candidateData.skills}

candidateText(candidateData) == toLowerCase(candidateData.extractedText)

directMatch_NoLower(candidateData, requiredSkill) ==
    requiredSkill.skill \in candidateData.skills

directMatch(candidateData, requiredSkill) ==
    toLowerCase(requiredSkill.skill) \in candidateSkills(candidateData)

textMatch(candidateData, requiredSkill) ==
    includes(candidateText(candidateData), toLowerCase(requiredSkill.skill))

\* the forEach over jobRole.requiredSkills: totalWeight
RECURSIVE totalWeight(_)
totalWeight(requiredSkills) ==
    IF requiredSkills = <<>> THEN 0
    ELSE WeightOf(Head(requiredSkills)) + totalWeight(Tail(requiredSkills))

RECURSIVE matchedSkills_Xor(_, _)
matchedSkills_Xor(candidateData, requiredSkills) ==
    IF requiredSkills = <<>> THEN <<>>
    ELSE LET rs == Head(requiredSkills)
             rest == matchedSkills_Xor(candidateData, Tail(requiredSkills))
         IN  IF directMatch(candidateData, rs) # textMatch(candidateData, rs)
             THEN <<[skill |-> rs.skill,
                     weight |-> WeightOf(rs),
                     matchType |-> IF directMatch(candidateData, rs)
                                   THEN "direct" ELSE "text"]>> \o rest
             ELSE rest

\* the forEach over jobRole.requiredSkills: matchedSkills, in list order
RECURSIVE matchedSkills(_, _)
matchedSkills(candidateData, requiredSkills) ==
    IF requiredSkills = <<>> THEN <<>>
    ELSE LET rs == Head(requiredSkills)
             rest == matchedSkills(candidateData, Tail(requiredSkills))
         IN  IF directMatch(candidateData, rs) \/ textMatch(candidateData, rs)
             THEN <<[skill |-> rs.skill,
                     weight |-> WeightOf(rs),
                     matchType |-> IF directMatch(candidateData, rs)
                                   THEN "direct" ELSE "text"]>> \o rest
             ELSE rest

\* the forEach over jobRole.requiredSkills: matchedWeight
RECURSIVE matchedWeight(_)
matchedWeight(matched) ==
    IF matched = <<>> THEN 0
    ELSE Head(matched).weight + matchedWeight(Tail(matched))

\* baseScore = (matchedWeight / totalWeight) * 80, as numerator over denominator
baseScoreNum(mw, tw) == IF tw > 0 THEN mw * 80 ELSE 0
baseScoreDen(mw, tw) == IF tw > 0 THEN tw ELSE 1

experienceBonus_Strict(experienceLevel, candidateYears) ==
    CASE experienceLevel = "entry" ->
            IF candidateYears < 2 THEN 10 ELSE IF candidateYears < 5 THEN 5 ELSE 0
      [] experienceLevel = "mid" ->
            IF candidateYears > 2 /\ candidateYears < 7 THEN 10 ELSE 5
      [] experienceLevel = "senior" ->
            IF candidateYears > 5 THEN 10 ELSE IF candidateYears > 3 THEN 5 ELSE 0
      [] experienceLevel = "lead" ->
            IF candidateYears > 8 THEN 10 ELSE IF candidateYears > 5 THEN 5 ELSE 0
      [] OTHER -> 0

\* switch (jobRole.experienceLevel)
experienceBonus(experienceLevel, candidateYears) ==
    CASE experienceLevel = "entry" ->
            IF candidateYears <= 2 THEN 10 ELSE IF candidateYears <= 5 THEN 5 ELSE 0
      [] experienceLevel = "mid" ->
            IF candidateYears >= 2 /\ candidateYears <= 7 THEN 10 ELSE 5
      [] experienceLevel = "senior" ->
            IF candidateYears >= 5 THEN 10 ELSE IF candidateYears >= 3 THEN 5 ELSE 0
      [] experienceLevel = "lead" ->
            IF candidateYears >= 8 THEN 10 ELSE IF candidateYears >= 5 THEN 5 ELSE 0
      [] OTHER -> 0

RelevantWords ==
    { <<"c","o","m","p","u","t","e","r">>,
      <<"e","n","g","i","n","e","e","r","i","n","g">>,
      <<"s","c","i","e","n","c","e">>,
      <<"t","e","c","h","n","o","l","o","g","y">>,
      <<"b","u","s","i","n","e","s","s">>,
      <<"m","a","n","a","g","e","m","e","n","t">> }

hasRelevantEducation_NoLower(education) ==
    \E i \in 1..Len(education) :
        \E w \in RelevantWords : includes(education[i].degree, w)

hasRelevantEducation(education) ==
    \E i \in 1..Len(education) :
        \E w \in RelevantWords : includes(toLowerCase(education[i].degree), w)

educationBonus(education) ==
    IF Len(education) > 0
    THEN (IF hasRelevantEducation(education) THEN 10 ELSE 5)
    ELSE 0

finalScore_Percent(num, den, expBonus, eduBonus) ==
    MathRound(num + (num \div 4) + (expBonus + eduBonus) * den, den)

\* Math.min(100, Math.round(baseScore + experienceBonus + educationBonus))
finalScore(num, den, expBonus, eduBonus) ==
    MathMin(100, MathRound(num + (expBonus + eduBonus) * den, den))

breakdown_NoEducation(num, den, expBonus, eduBonus) ==
    [skillsScore |-> MathRound(num, den),
     experienceBonus |-> expBonus,
     educationBonus |-> 0]

\* the breakdown object of the result
breakdown(num, den, expBonus, eduBonus) ==
    [skillsScore |-> MathRound(num, den),
     experienceBonus |-> expBonus,
     educationBonus |-> eduBonus]

calculateATSScore_NoEarlyReturn(candidateData, jobRole) ==
    LET matched == matchedSkills(candidateData, jobRole.requiredSkills)
        tw == totalWeight(jobRole.requiredSkills)
        mw == matchedWeight(matched)
        num == baseScoreNum(mw, tw)
        den == baseScoreDen(mw, tw)
        expBonus == experienceBonus(jobRole.experienceLevel,
                                    candidateData.experience.years)
        eduBonus == educationBonus(candidateData.education)
    IN  [score |-> finalScore(num, den, expBonus, eduBonus),
         matchedSkills |-> matched,
         breakdown |-> breakdown(num, den, expBonus, eduBonus)]

calculateATSScore(candidateData, jobRole) ==
    IF Len(jobRole.requiredSkills) = 0
    THEN [score |-> 0, matchedSkills |-> <<>>]
    ELSE LET matched == matchedSkills(candidateData, jobRole.requiredSkills)
             tw == totalWeight(jobRole.requiredSkills)
             mw == matchedWeight(matched)
             num == baseScoreNum(mw, tw)
             den == baseScoreDen(mw, tw)
             expBonus == experienceBonus(jobRole.experienceLevel,
                                         candidateData.experience.years)
             eduBonus == educationBonus(candidateData.education)
         IN  [score |-> finalScore(num, den, expBonus, eduBonus),
              matchedSkills |-> matched,
              breakdown |-> breakdown(num, den, expBonus, eduBonus)]

bestScan_GreaterEq(best, entry) ==
    IF entry.score >= best.bestScore
    THEN [bestScore |-> entry.score, bestJobRole |-> entry.jobRole]
    ELSE best

\* if (result.score > bestScore) { bestScore = result.score; bestJobRole = jobRole._id; }
bestScan(best, entry) ==
    IF entry.score > best.bestScore
    THEN [bestScore |-> entry.score, bestJobRole |-> entry.jobRole]
    ELSE best

\* jobRole ids are positive; null is 0
NullId == 0

\* result.breakdown of the degenerate (no required skills) result is undefined
Undefined == [undefined |-> TRUE]

\* the element pushed on scores for one job role
scoreEntry(candidateData, jobRole) ==
    LET result == calculateATSScore(candidateData, jobRole)
    IN  [jobRole |-> jobRole.id,
         score |-> result.score,
         matchedSkills |-> result.matchedSkills,
         breakdown |-> IF "breakdown" \in DOMAIN result
                       THEN result.breakdown ELSE Undefined]

\* the for loop of calculateAllJobRoleScores from position i, with the running best
RECURSIVE scanJobRoles_LatestMatch(_, _, _, _, _)
scanJobRoles_LatestMatch(candidateData, jobRoles, i, scores, best) ==
    IF i > Len(jobRoles)
    THEN [jobRoleScores |-> scores,
          bestMatchJobRole |-> best.bestJobRole,
          bestMatchScore |-> best.bestScore]
    ELSE LET entry == scoreEntry(candidateData, jobRoles[i])
         IN  scanJobRoles_LatestMatch(candidateData, jobRoles, i + 1,
                Append(scores, entry),
                IF entry.score > 0
                THEN [bestScore |-> entry.score, bestJobRole |-> entry.jobRole]
                ELSE best)

RECURSIVE scanJobRoles(_, _, _, _, _)
scanJobRoles(candidateData, jobRoles, i, scores, best) ==
    IF i > Len(jobRoles)
    THEN [jobRoleScores |-> scores,
          bestMatchJobRole |-> best.bestJobRole,
          bestMatchScore |-> best.bestScore]
    ELSE LET entry == scoreEntry(candidateData, jobRoles[i])
         IN  scanJobRoles(candidateData, jobRoles, i + 1,
                          Append(scores, entry), bestScan(best, entry))

calculateAllJobRoleScores(candidateData, jobRoles) ==
    scanJobRoles(candidateData, jobRoles, 1, <<>>,
                 [bestScore |-> 0, bestJobRole |-> NullId])

----------------------------------------------------------------------------
(* Inputs of the scoring functions *)

MaxRoles == 3       \* job roles passed to calculateAllJobRoleScores

ExperienceLevels == {"entry", "mid", "senior", "lead"}

\* weights in tenths: 0.1, 3.1 and 5 (0.1 of 3.2 gives the half 2.5 of 80)
Weights == {1, 31, 50}

RoleSkillNames == { <<"J","s">>, <<"q">> }
CandSkillNames == { <<"j","s">>, <<"Q">> }
Texts == { <<>>, <<"x","J","S">>, <<"q","j">> }

DegreeTexts ==
    { <<"B","S","c"," ","S","c","i","e","n","c","e">>,
      <<"B","A"," ","A","r","t","s">> }

SeqsUpTo(S, n) == UNION {[1..k -> S] : k \in 0..n}

RequiredSkill == [skill : RoleSkillNames, weight : Weights]

CandidateDatas ==
    [skills : SUBSET CandSkillNames,
     extractedText : Texts,
     experience : [years : 0..MaxYears],
     education : SeqsUpTo([degree : DegreeTexts], MaxEdu)]

JobRoleInputs ==
    [id : {1},
     requiredSkills : SeqsUpTo(RequiredSkill, MaxSkills),
     experienceLevel : ExperienceLevels]

\* a small pool of role bodies for role lists
RolePool ==
    [requiredSkills : SeqsUpTo([skill : RoleSkillNames, weight : {10}], 1),
     experienceLevel : {"entry", "senior"}]

RoleLists ==
    { [i \in 1..Len(l) |-> [id |-> i,
                            requiredSkills |-> l[i].requiredSkills,
                            experienceLevel |-> l[i].experienceLevel]] :
        l \in SeqsUpTo(RolePool, MaxRoles) }

ListCandidateDatas ==
    { cd \in CandidateDatas : cd.experience.years \in {0, 3, MaxYears} }

NoCall == [fn |-> "none"]
NoRet == [none |-> TRUE]

----------------------------------------------------------------------------
(* The idle values of the upload pipeline *)

PipelineIdle ==
    /\ jobRolesDb = {}
    /\ candidates = <<>>
    /\ disk = {}
    /\ reqs = <<>>

----------------------------------------------------------------------------
(* Specification of calculateATSScore over all bounded inputs *)

InitATS ==
    /\ call \in [fn : {"calculateATSScore"},
                 candidateData : CandidateDatas,
                 jobRole : JobRoleInputs]
    /\ ret = NoRet
    /\ PipelineIdle

ApplyATS ==
    /\ call.fn = "calculateATSScore"
    /\ ret = NoRet
    /\ ret' = calculateATSScore(call.candidateData, call.jobRole)
    /\ UNCHANGED <<call, jobRolesDb, candidates, disk, reqs>>

NextATS == ApplyATS

SpecATS == InitATS /\ [][NextATS]_vars

(* Specification of calculateAllJobRoleScores over all bounded inputs *)

InitAll ==
    /\ call \in [fn : {"calculateAllJobRoleScores"},
                 candidateData : ListCandidateDatas,
                 jobRoles : RoleLists]
    /\ ret = NoRet
    /\ PipelineIdle

ApplyAll ==
    /\ call.fn = "calculateAllJobRoleScores"
    /\ ret = NoRet
    /\ ret' = calculateAllJobRoleScores(call.candidateData, call.jobRoles)
    /\ UNCHANGED <<call, jobRolesDb, candidates, disk, reqs>>

NextAll == ApplyAll

SpecAll == InitAll /\ [][NextAll]_vars

----------------------------------------------------------------------------
(* Properties of calculateATSScore (under SpecATS) *)

ATSReturned == call.fn = "calculateATSScore" /\ ret # NoRet

\* r is num/den rounded to the nearest integer, halves up
IsRoundHalfUp(r, num, den) ==
    /\ 2 * den * r <= 2 * num + den
    /\ 2 * num + den < 2 * den * (r + 1)

\* the required skill is matched, in the words of the scoring rules
SkillIsListed(cd, rs) ==
    \E s \in cd.skills : toLowerCase(s) = toLowerCase(rs.skill)
SkillIsInText(cd, rs) ==
    \E k \in 0..Len(cd.extractedText) : \E n \in 0..Len(cd.extractedText) :
        /\ k + n <= Len(cd.extractedText)
        /\ toLowerCase(SubSeq(cd.extractedText, k + 1, k + n)) = toLowerCase(rs.skill)
SkillCounts(cd, rs) == SkillIsListed(cd, rs) \/ SkillIsInText(cd, rs)

SumOfWeights(cd, requiredSkills, onlyMatched) ==
    LET RECURSIVE Sum(_)
        Sum(i) == IF i = 0 THEN 0
                  ELSE Sum(i - 1) +
                       (IF onlyMatched => SkillCounts(cd, requiredSkills[i])
                        THEN requiredSkills[i].weight ELSE 0)
    IN  Sum(Len(requiredSkills))

\* C1: every score returned by calculateATSScore is an integer between 0 and 100
C1_ScoreBounds ==
    ATSReturned => ret.score \in 0..100

\* C1 witness: a fully matching candidate reaches the top score 100
C1_Witness ==
    /\ ATSReturned
    /\ Len(call.jobRole.requiredSkills) = MaxSkills
    /\ ret.score = 100

C9_MatchRule ==
    (ATSReturned /\ Len(call.jobRole.requiredSkills) > 0) =>
        LET cd == call.candidateData
            rsk == call.jobRole.requiredSkills
            Counts(rs) == SkillCounts(cd, rs)
            expected == SelectSeq(rsk, Counts)
        IN  /\ Len(ret.matchedSkills) = Len(expected)
            /\ \A i \in 1..Len(expected) :
                  /\ ret.matchedSkills[i].skill = expected[i].skill
                  /\ ret.matchedSkills[i].weight = expected[i].weight
                  /\ ret.matchedSkills[i].matchType =
                        IF SkillIsListed(cd, expected[i]) THEN "direct" ELSE "text"
            /\ IsRoundHalfUp(ret.breakdown.skillsScore,
                             80 * SumOfWeights(cd, rsk, TRUE),
                             SumOfWeights(cd, rsk, FALSE))

\* C9 witness: one required skill matched through the skills list only (in a
\* different letter case), the other through the text only
C9_Witness ==
    /\ ATSReturned
    /\ Len(ret.matchedSkills) = 2
    /\ ret.matchedSkills[1].matchType = "direct"
    /\ ret.matchedSkills[1].skill \notin call.candidateData.skills
    /\ ~ SkillIsInText(call.candidateData, ret.matchedSkills[1])
    /\ ret.matchedSkills[2].matchType = "text"

\* the experience bonus table of the scoring rules
BonusTable(level, y) ==
    CASE level = "entry"  -> IF y <= 2 THEN 10 ELSE IF 2 < y /\ y <= 5 THEN 5 ELSE 0
      [] level = "mid"    -> IF 2 <= y /\ y <= 7 THEN 10 ELSE 5
      [] level = "senior" -> IF y >= 5 THEN 10 ELSE IF 3 <= y /\ y < 5 THEN 5 ELSE 0
      [] level = "lead"   -> IF y >= 8 THEN 10 ELSE IF 5 <= y /\ y < 8 THEN 5 ELSE 0

\* C10: the experience bonus follows the table for every level and every
\* non-negative number of years; senior gives 10, 5, 0 for 5, 4, 2 years
C10_ExperienceTable ==
    (ATSReturned /\ Len(call.jobRole.requiredSkills) > 0) =>
        LET level == call.jobRole.experienceLevel
            y == call.candidateData.experience.years
        IN  /\ ret.breakdown.experienceBonus = BonusTable(level, y)
            /\ (level = "senior" /\ y = 5) => ret.breakdown.experienceBonus = 10
            /\ (level = "senior" /\ y = 4) => ret.breakdown.experienceBonus = 5
            /\ (level = "senior" /\ y = 2) => ret.breakdown.experienceBonus = 0

\* C10 witness: a senior role and 4 years give the bonus 5
C10_Witness ==
    /\ ATSReturned
    /\ Len(call.jobRole.requiredSkills) > 0
    /\ call.jobRole.experienceLevel = "senior"
    /\ call.candidateData.experience.years = 4
    /\ ret.breakdown.experienceBonus = 5

----------------------------------------------------------------------------
(* Properties of calculateAllJobRoleScores (under SpecAll) *)

AllReturned == call.fn = "calculateAllJobRoleScores" /\ ret # NoRet

\* positions i < j hold the same score and no role scores higher
TiedAtTop(i, j) ==
    /\ i \in 1..Len(ret.jobRoleScores)
    /\ j \in 1..Len(ret.jobRoleScores)
    /\ i < j
    /\ ret.jobRoleScores[i].score = ret.jobRoleScores[j].score
    /\ \A k \in 1..Len(ret.jobRoleScores) :
          ret.jobRoleScores[k].score <= ret.jobRoleScores[i].score
    /\ \A k \in 1..(i - 1) :
          ret.jobRoleScores[k].score < ret.jobRoleScores[i].score

\* C7 as stated: two roles tied at the top score make the first of them the
\* best match, for every value of the shared score
C7_FirstWinsAnyScore ==
    AllReturned =>
        \A i, j \in 1..Len(call.jobRoles) :
            TiedAtTop(i, j) => ret.bestMatchJobRole = call.jobRoles[i].id

\* C7 amended: two roles tied at a top score above 0 make the first of them
\* the best match; a tie at 0 leaves the best match null
C7_FirstWinsPositiveScore ==
    AllReturned =>
        \A i, j \in 1..Len(call.jobRoles) :
            TiedAtTop(i, j) =>
                /\ ret.jobRoleScores[i].score > 0
                      => /\ ret.bestMatchJobRole = call.jobRoles[i].id
                         /\ ret.bestMatchScore = ret.jobRoleScores[i].score
                /\ ret.jobRoleScores[i].score = 0
                      => /\ ret.bestMatchJobRole = NullId
                         /\ ret.bestMatchScore = 0

\* C7 witness: the first and the third role tie above the second one and the
\* first is returned
C7_Witness ==
    /\ AllReturned
    /\ TiedAtTop(1, 3)
    /\ ret.jobRoleScores[2].score < ret.jobRoleScores[1].score
    /\ ret.jobRoleScores[1].score > 0
    /\ ret.bestMatchJobRole = call.jobRoles[1].id

----------------------------------------------------------------------------
(* routes/upload.js: the data of the upload pipeline *)

MaxFiles == 2       \* files in one bulk upload
MaxChunks == 2      \* resume chunks found in one file
MaxReqs == 1        \* upload requests served on one connection slot

Users == {1, 2}

EmailA == <<"a","@","x",".","i","o">>
EmailUpperA == <<"A","@","x",".","i","o">>
EmailB == <<"b","@","x",".","i","o">>
NameN == <<"N","a","n">>

Nothing == [nothing |-> TRUE]

\* results of parseResumeData on a chunk, with extractedText set by the route
Parsed(name, email, skills, years, text) ==
    [name |-> name, email |-> email, skills |-> skills,
     experience |-> [years |-> years], education |-> <<>>,
     extractedText |-> text]

ParsedChunks ==
    { Parsed(<<>>, EmailA, {}, 0, EmailA),
      Parsed(NameN, <<>>, {}, 0, NameN),
      Parsed(NameN, EmailA, {<<"j","s">>}, 1, NameN \o EmailA),
      Parsed(NameN, EmailUpperA, {}, 4, NameN \o EmailUpperA),
      Parsed(NameN, EmailB, {}, 6, NameN \o EmailB \o <<"q">>) }

\* the job role documents the collection may hold
JobRoleDoc(id, owner, active, skill, level) ==
    [id |-> id, title |-> skill, createdBy |-> owner, isActive |-> active,
     requiredSkills |-> <<[skill |-> skill, weight |-> 10]>>,
     experienceLevel |-> level]

JobRoleDocs ==
    { JobRoleDoc(1, 1, TRUE, <<"J","s">>, "entry"),
      JobRoleDoc(2, 1, FALSE, <<"q">>, "mid"),
      JobRoleDoc(3, 2, TRUE, <<"q">>, "senior") }

\* a query result in collection order (by id)
RECURSIVE InIdOrder(_)
InIdOrder(S) ==
    IF S = {} THEN <<>>
    ELSE LET first == CHOOSE x \in S : \A y \in S : x.id <= y.id
         IN  <<first>> \o InIdOrder(S \ {first})

\* JobRole.find({ isActive: true, createdBy: req.user.id })
FindActiveRolesOf(user) ==
    InIdOrder({jr \in jobRolesDb : jr.isActive /\ jr.createdBy = user})

\* JobRole.find({ isActive: true })
FindActiveRoles ==
    InIdOrder({jr \in jobRolesDb : jr.isActive})

\* the lowercase setter of candidateSchema.email (also applied to query filters);
\* the parsed email holds no blanks, so trim leaves it unchanged
SchemaEmail(email) == toLowerCase(email)

CandidateExists_NoLower(email, user) ==
    \E i \in 1..Len(candidates) :
        /\ candidates[i].email = email
        /\ candidates[i].createdBy = user

\* Candidate.findOne({ email, createdBy }) finds a document
CandidateExists(email, user) ==
    \E i \in 1..Len(candidates) :
        /\ candidates[i].email = SchemaEmail(email)
        /\ candidates[i].createdBy = user

\* jobRoleScores as candidateSchema keeps them (no breakdown, no matchType)
SchemaScores(jobRoleScores) ==
    [i \in 1..Len(jobRoleScores) |->
        [jobRole |-> jobRoleScores[i].jobRole,
         score |-> jobRoleScores[i].score,
         matchedSkills |->
            [k \in 1..Len(jobRoleScores[i].matchedSkills) |->
                [skill |-> jobRoleScores[i].matchedSkills[k].skill,
                 weight |-> jobRoleScores[i].matchedSkills[k].weight]]]]

\* the _id of a new document: an ObjectId that no document and no request holds
NextId ==
    LET stored == {candidates[i].id : i \in 1..Len(candidates)}
        reported == UNION {{reqs[s].results.successful[k].candidateId :
                               k \in 1..Len(reqs[s].results.successful)} :
                           s \in DOMAIN reqs}
        requested == {reqs[s].target : s \in DOMAIN reqs}
        held == stored \cup reported \cup requested \cup {0}
    IN  1 + CHOOSE m \in held : \A x \in held : x <= m

\* new Candidate({...}) as candidate.save() stores it
NewCandidate(candidateData, scoringResults, filePath, user) ==
    [id |-> NextId,
     name |-> candidateData.name,
     email |-> SchemaEmail(candidateData.email),
     resumePath |-> filePath,
     extractedText |-> candidateData.extractedText,
     skills |-> candidateData.skills,
     experience |-> candidateData.experience,
     education |-> candidateData.education,
     jobRoleScores |-> SchemaScores(scoringResults.jobRoleScores),
     bestMatchJobRole |-> scoringResults.bestMatchJobRole,
     bestMatchScore |-> scoringResults.bestMatchScore,
     status |-> "new",
     createdBy |-> user]

MissingRequired_EmailOnly(candidateData) ==
    candidateData.email = <<>>

\* !candidateData.name || !candidateData.email
MissingRequired(candidateData) ==
    candidateData.name = <<>> \/ candidateData.email = <<>>

\* a connection slot between two requests; served counts the requests it took
IdleReq(served) ==
    [kind |-> "idle", served |-> served, user |-> 0, files |-> <<>>,
     pc |-> "idle", target |-> 0, body |-> Nothing,
     jobRoles |-> <<>>, f |-> 0, chunks |-> 0, idx |-> 0,
     extractedText |-> <<>>,
     createdAtLeastOne |-> FALSE, candidateData |-> Nothing,
     scoringResults |-> Nothing,
     results |-> [successful |-> <<>>, failed |-> <<>>],
     response |-> Nothing]

\* the paths multer gives the n files of the next request of slot s
FilePaths(s, served, n) ==
    [i \in 1..n |-> (s - 1) * MaxReqs * MaxFiles + served * MaxFiles + i]

Response(status, message) == [status |-> status, message |-> message]

----------------------------------------------------------------------------
(* routes/upload.js: POST /bulk-resumes *)

\* results.failed.push({ filename, error }); section 0 names the whole file
PushFailed(r, section, error) ==
    [r EXCEPT !.results.failed =
        Append(@, [filename |-> <<r.f, section>>, error |-> error])]

\* res.status(200).json({ message: 'Bulk upload completed', summary, results })
BulkRespond(r) ==
    [r EXCEPT !.pc = "done",
              !.response =
                 [status |-> 200,
                  message |-> "Bulk upload completed",
                  summary |-> [total |-> Len(r.files),
                               successful |-> Len(r.results.successful),
                               failed |-> Len(r.results.failed)],
                  results |-> r.results]]

\* the next iteration of for (const file of req.files), or the response
NextFile(r) ==
    LET cleared == [r EXCEPT !.chunks = 0, !.idx = 0,
                             !.extractedText = <<>>,
                             !.createdAtLeastOne = FALSE,
                             !.candidateData = Nothing,
                             !.scoringResults = Nothing]
    IN  IF r.f < Len(r.files)
        THEN [cleared EXCEPT !.f = @ + 1, !.pc = "extract"]
        ELSE BulkRespond(cleared)

\* fs.unlinkSync(filePath); results.failed.push(...); continue
\* and the catch block of the per-file try
FailFile(r, d, error) ==
    [r |-> NextFile(PushFailed(r, 0, error)),
     disk |-> d \ {r.files[r.f]}]

\* the end of one iteration of the chunk loop: the next chunk, or after the
\* last chunk the deletion of a file from which nothing was created
EndChunk(r, d) ==
    IF r.idx + 1 < r.chunks
    THEN [r |-> [r EXCEPT !.idx = @ + 1, !.pc = "parse",
                          !.candidateData = Nothing,
                          !.scoringResults = Nothing],
          disk |-> d]
    ELSE [r |-> NextFile(r),
          disk |-> IF r.createdAtLeastOne THEN d ELSE d \ {r.files[r.f]}]

\* multer stores the files, then the handler starts
BulkReceive(s) ==
    /\ reqs[s].kind = "idle"
    /\ reqs[s].served < MaxReqs
    /\ \E u \in Users : \E n \in 0..MaxFiles :
          LET paths == FilePaths(s, reqs[s].served, n)
              r == [IdleReq(reqs[s].served) EXCEPT !.kind = "bulk", !.user = u,
                                                   !.files = paths]
          IN  IF n = 0
              THEN /\ reqs' = [reqs EXCEPT ![s] =
                         [r EXCEPT !.pc = "done",
                                   !.response = Response(400, "No files uploaded")]]
                   /\ UNCHANGED disk
              ELSE /\ reqs' = [reqs EXCEPT ![s] = [r EXCEPT !.pc = "find_roles"]]
                   /\ disk' = disk \cup {paths[i] : i \in 1..n}
    /\ UNCHANGED <<call, ret, jobRolesDb, candidates>>

\* const jobRoles = await JobRole.find({ isActive: true }); a rejection goes to
\* the outer catch, which deletes every uploaded file and answers 500
BulkFindRoles(s) ==
    /\ reqs[s].kind = "bulk"
    /\ reqs[s].pc = "find_roles"
    /\ \/ /\ reqs' = [reqs EXCEPT ![s] =
                [reqs[s] EXCEPT !.jobRoles = FindActiveRoles,
                                !.f = 1, !.pc = "extract"]]
          /\ UNCHANGED disk
       \/ /\ reqs' = [reqs EXCEPT ![s] =
                [reqs[s] EXCEPT !.pc = "done",
                                !.response = Response(500, "Error processing bulk upload")]]
          /\ disk' = disk \ {reqs[s].files[i] : i \in 1..Len(reqs[s].files)}
    /\ UNCHANGED <<call, ret, jobRolesDb, candidates>>

\* the texts a file can hold: none, only whitespace, some text
ExtractedTexts == {<<>>, Chars(" \n"), Chars("cv")}

\* extractedText = fs.readFileSync(filePath, 'utf8') or
\* await extractTextFromFile(filePath, fileExt), which can throw
BulkExtract(s) ==
    /\ reqs[s].kind = "bulk"
    /\ reqs[s].pc = "extract"
    /\ LET r == reqs[s]
           failed == FailFile(r, disk, "Failed to extract text")
       IN  \/ /\ reqs' = [reqs EXCEPT ![s] = failed.r]
              /\ disk' = failed.disk
           \/ /\ \E extractedText \in ExtractedTexts :
                    reqs' = [reqs EXCEPT ![s] =
                               [r EXCEPT !.extractedText = extractedText,
                                         !.pc = "split"]]
              /\ UNCHANGED disk
    /\ UNCHANGED <<call, ret, jobRolesDb, candidates>>

\* !extractedText || extractedText.trim().length === 0
noText_NoTrim(extractedText) == extractedText = <<>>

noText(extractedText) == extractedText = <<>> \/ Len(trim(extractedText)) = 0

\* the empty-text branch, then splitMultipleResumes(extractedText) and the
\* zero-chunk branch; n is the number of chunks of a text that is not blank
BulkSplit(s) ==
    /\ reqs[s].kind = "bulk"
    /\ reqs[s].pc = "split"
    /\ LET r == reqs[s]
           empty == FailFile(r, disk, "Could not extract text from resume")
           undetected == FailFile(r, disk, "Unable to detect resumes in this file")
       IN  IF noText(r.extractedText)
           THEN /\ reqs' = [reqs EXCEPT ![s] = empty.r]
                /\ disk' = empty.disk
           ELSE \E n \in 0..MaxChunks :
                   IF n = 0
                   THEN /\ reqs' = [reqs EXCEPT ![s] = undetected.r]
                        /\ disk' = undetected.disk
                   ELSE /\ reqs' = [reqs EXCEPT ![s] =
                              [r EXCEPT !.chunks = n, !.idx = 0,
                                        !.createdAtLeastOne = FALSE,
                                        !.pc = "parse"]]
                        /\ UNCHANGED disk
    /\ UNCHANGED <<call, ret, jobRolesDb, candidates>>

\* const candidateData = parseResumeData(chunkText) for the current chunk
BulkParse(s) ==
    /\ reqs[s].kind = "bulk"
    /\ reqs[s].pc = "parse"
    /\ \E candidateData \in ParsedChunks :
          reqs' = [reqs EXCEPT ![s] =
                     [reqs[s] EXCEPT !.candidateData = candidateData,
                                     !.pc = "validate"]]
    /\ UNCHANGED <<call, ret, jobRolesDb, candidates, disk>>

\* if (!candidateData.name || !candidateData.email) { results.failed.push; continue }
BulkValidate_NoCheck(s) ==
    /\ reqs[s].kind = "bulk"
    /\ reqs[s].pc = "validate"
    /\ reqs' = [reqs EXCEPT ![s] = [reqs[s] EXCEPT !.pc = "find_dup"]]
    /\ UNCHANGED <<call, ret, jobRolesDb, candidates, disk>>

BulkValidate(s) ==
    /\ reqs[s].kind = "bulk"
    /\ reqs[s].pc = "validate"
    /\ LET r == reqs[s]
           skipped == EndChunk(PushFailed(r, r.idx + 1,
                         "Could not extract required information (name, email)"),
                         disk)
       IN  IF MissingRequired(r.candidateData)
           THEN /\ reqs' = [reqs EXCEPT ![s] = skipped.r]
                /\ disk' = skipped.disk
           ELSE /\ reqs' = [reqs EXCEPT ![s] = [r EXCEPT !.pc = "find_dup"]]
                /\ UNCHANGED disk
    /\ UNCHANGED <<call, ret, jobRolesDb, candidates>>

\* await Candidate.findOne({ email, createdBy }), then the scoring
BulkFindDup(s) ==
    /\ reqs[s].kind = "bulk"
    /\ reqs[s].pc = "find_dup"
    /\ LET r == reqs[s]
           thrown == FailFile(r, disk, "storage error")
           skipped == EndChunk(PushFailed(r, r.idx + 1,
                         "Candidate with this email already exists"), disk)
       IN  \/ /\ reqs' = [reqs EXCEPT ![s] = thrown.r]
              /\ disk' = thrown.disk
           \/ /\ CandidateExists(r.candidateData.email, r.user)
              /\ reqs' = [reqs EXCEPT ![s] = skipped.r]
              /\ disk' = skipped.disk
           \/ /\ ~ CandidateExists(r.candidateData.email, r.user)
              /\ reqs' = [reqs EXCEPT ![s] =
                    [r EXCEPT !.scoringResults =
                                 calculateAllJobRoleScores(r.candidateData, r.jobRoles),
                              !.pc = "save"]]
              /\ UNCHANGED disk
    /\ UNCHANGED <<call, ret, jobRolesDb, candidates>>

\* await candidate.save(); createdAtLeastOne = true; results.successful.push(...)
BulkSave(s) ==
    /\ reqs[s].kind = "bulk"
    /\ reqs[s].pc = "save"
    /\ LET r == reqs[s]
           thrown == FailFile(r, disk, "storage error")
           candidate == NewCandidate(r.candidateData, r.scoringResults,
                                     r.files[r.f], r.user)
           saved == EndChunk(
                      [r EXCEPT !.createdAtLeastOne = TRUE,
                                !.results.successful =
                                   Append(@, [filename |-> <<r.f, r.idx + 1>>,
                                              candidateId |-> candidate.id,
                                              name |-> candidate.name,
                                              email |-> candidate.email,
                                              bestMatchScore |-> candidate.bestMatchScore])],
                      disk)
       IN  \/ /\ reqs' = [reqs EXCEPT ![s] = thrown.r]
              /\ disk' = thrown.disk
              /\ UNCHANGED candidates
           \/ /\ candidates' = Append(candidates, candidate)
              /\ reqs' = [reqs EXCEPT ![s] = saved.r]
              /\ disk' = saved.disk
    /\ UNCHANGED <<call, ret, jobRolesDb>>

----------------------------------------------------------------------------
(* routes/upload.js: POST /resume *)

\* fs.unlinkSync(filePath); return res.status(...).json({ message })
\* and the catch block of the handler (status 500)
SingleEnd(r, status, message) ==
    [r EXCEPT !.pc = "done", !.response = Response(status, message),
              !.candidateData = Nothing, !.scoringResults = Nothing]

\* multer stores the file, then the handler starts
SingleReceive(s) ==
    /\ reqs[s].kind = "idle"
    /\ reqs[s].served < MaxReqs
    /\ \E u \in Users : \E n \in 0..1 :
          LET paths == FilePaths(s, reqs[s].served, n)
              r == [IdleReq(reqs[s].served) EXCEPT !.kind = "single", !.user = u,
                                                   !.files = paths]
          IN  IF n = 0
              THEN /\ reqs' = [reqs EXCEPT ![s] = SingleEnd(r, 400, "No file uploaded")]
                   /\ UNCHANGED disk
              ELSE /\ reqs' = [reqs EXCEPT ![s] = [r EXCEPT !.f = 1, !.pc = "extract"]]
                   /\ disk' = disk \cup {paths[1]}
    /\ UNCHANGED <<call, ret, jobRolesDb, candidates>>

\* text extraction and parseResumeData(extractedText)
SingleExtract(s) ==
    /\ reqs[s].kind = "single"
    /\ reqs[s].pc = "extract"
    /\ LET r == reqs[s]
       IN  \/ /\ reqs' = [reqs EXCEPT ![s] = SingleEnd(r, 500, "Error processing resume")]
              /\ disk' = disk \ {r.files[1]}
           \/ /\ reqs' = [reqs EXCEPT ![s] =
                    SingleEnd(r, 400, "Could not extract text from resume")]
              /\ disk' = disk \ {r.files[1]}
           \/ /\ \E candidateData \in ParsedChunks :
                    reqs' = [reqs EXCEPT ![s] =
                               [r EXCEPT !.candidateData = candidateData,
                                         !.pc = "validate"]]
              /\ UNCHANGED disk
    /\ UNCHANGED <<call, ret, jobRolesDb, candidates>>

\* if (!candidateData.name || !candidateData.email) { unlink; return 400 }
SingleValidate(s) ==
    /\ reqs[s].kind = "single"
    /\ reqs[s].pc = "validate"
    /\ LET r == reqs[s]
       IN  IF MissingRequired(r.candidateData)
           THEN /\ reqs' = [reqs EXCEPT ![s] = SingleEnd(r, 400,
                      "Could not extract required information (name, email) from resume")]
                /\ disk' = disk \ {r.files[1]}
           ELSE /\ reqs' = [reqs EXCEPT ![s] = [r EXCEPT !.pc = "find_dup"]]
                /\ UNCHANGED disk
    /\ UNCHANGED <<call, ret, jobRolesDb, candidates>>

\* await Candidate.findOne({ email, createdBy })
SingleFindDup(s) ==
    /\ reqs[s].kind = "single"
    /\ reqs[s].pc = "find_dup"
    /\ LET r == reqs[s]
       IN  \/ /\ reqs' = [reqs EXCEPT ![s] = SingleEnd(r, 500, "Error processing resume")]
              /\ disk' = disk \ {r.files[1]}
           \/ /\ CandidateExists(r.candidateData.email, r.user)
              /\ reqs' = [reqs EXCEPT ![s] =
                    SingleEnd(r, 400, "Candidate with this email already exists")]
              /\ disk' = disk \ {r.files[1]}
           \/ /\ ~ CandidateExists(r.candidateData.email, r.user)
              /\ reqs' = [reqs EXCEPT ![s] = [r EXCEPT !.pc = "find_roles"]]
              /\ UNCHANGED disk
    /\ UNCHANGED <<call, ret, jobRolesDb, candidates>>

\* await JobRole.find({ isActive: true, createdBy }), then the scoring
SingleFindRoles(s) ==
    /\ reqs[s].kind = "single"
    /\ reqs[s].pc = "find_roles"
    /\ LET r == reqs[s]
           jobRoles == FindActiveRolesOf(r.user)
       IN  \/ /\ reqs' = [reqs EXCEPT ![s] = SingleEnd(r, 500, "Error processing resume")]
              /\ disk' = disk \ {r.files[1]}
           \/ /\ reqs' = [reqs EXCEPT ![s] =
                    [r EXCEPT !.jobRoles = jobRoles,
                              !.scoringResults =
                                 calculateAllJobRoleScores(r.candidateData, jobRoles),
                              !.pc = "save"]]
              /\ UNCHANGED disk
    /\ UNCHANGED <<call, ret, jobRolesDb, candidates>>

\* await candidate.save()
SingleSave(s) ==
    /\ reqs[s].kind = "single"
    /\ reqs[s].pc = "save"
    /\ LET r == reqs[s]
       IN  \/ /\ reqs' = [reqs EXCEPT ![s] = SingleEnd(r, 500, "Error processing resume")]
              /\ disk' = disk \ {r.files[1]}
              /\ UNCHANGED candidates
           \/ /\ candidates' = Append(candidates,
                    NewCandidate(r.candidateData, r.scoringResults, r.files[1], r.user))
              /\ reqs' = [reqs EXCEPT ![s] = [r EXCEPT !.pc = "populate"]]
              /\ UNCHANGED disk
    /\ UNCHANGED <<call, ret, jobRolesDb>>

\* await candidate.populate(...) twice, then the 201 response; a rejection
\* goes to the catch block, which deletes the file of the saved candidate
SinglePopulate(s) ==
    /\ reqs[s].kind = "single"
    /\ reqs[s].pc = "populate"
    /\ LET r == reqs[s]
       IN  \/ /\ reqs' = [reqs EXCEPT ![s] = SingleEnd(r, 500, "Error processing resume")]
              /\ disk' = disk \ {r.files[1]}
           \/ /\ reqs' = [reqs EXCEPT ![s] =
                    SingleEnd(r, 201, "Resume uploaded and processed successfully")]
              /\ UNCHANGED disk
    /\ UNCHANGED <<call, ret, jobRolesDb, candidates>>

\* the response is sent and the connection takes its next request
Complete(s) ==
    /\ reqs[s].pc = "done"
    /\ reqs' = [reqs EXCEPT ![s] = IdleReq(reqs[s].served + 1)]
    /\ UNCHANGED <<call, ret, jobRolesDb, candidates, disk>>

----------------------------------------------------------------------------
(* Specification of the upload routes: one request at a time *)

\* a candidate that user 1 uploaded earlier through POST /resume (file 0)
EarlierCandidate(roles) ==
    LET candidateData == Parsed(NameN, EmailA, {}, 2, NameN \o EmailA)
        jobRoles == InIdOrder({jr \in roles : jr.isActive /\ jr.createdBy = 1})
    IN  [id |-> 1,
         name |-> candidateData.name,
         email |-> SchemaEmail(candidateData.email),
         resumePath |-> 0,
         extractedText |-> candidateData.extractedText,
         skills |-> candidateData.skills,
         experience |-> candidateData.experience,
         education |-> candidateData.education,
         jobRoleScores |->
            SchemaScores(calculateAllJobRoleScores(candidateData, jobRoles).jobRoleScores),
         bestMatchJobRole |->
            calculateAllJobRoleScores(candidateData, jobRoles).bestMatchJobRole,
         bestMatchScore |->
            calculateAllJobRoleScores(candidateData, jobRoles).bestMatchScore,
         status |-> "new",
         createdBy |-> 1]

Init ==
    /\ call = NoCall
    /\ ret = NoRet
    /\ jobRolesDb \in {{}, JobRoleDocs}
    /\ \/ candidates = <<>> /\ disk = {}
       \/ candidates = <<EarlierCandidate(jobRolesDb)>> /\ disk = {0}
    /\ reqs = [s \in {1} |-> IdleReq(0)]

Next ==
    \/ \E s \in DOMAIN reqs : BulkReceive(s)
    \/ \E s \in DOMAIN reqs : BulkFindRoles(s)
    \/ \E s \in DOMAIN reqs : BulkExtract(s)
    \/ \E s \in DOMAIN reqs : BulkSplit(s)
    \/ \E s \in DOMAIN reqs : BulkParse(s)
    \/ \E s \in DOMAIN reqs : BulkValidate(s)
    \/ \E s \in DOMAIN reqs : BulkFindDup(s)
    \/ \E s \in DOMAIN reqs : BulkSave(s)
    \/ \E s \in DOMAIN reqs : SingleReceive(s)
    \/ \E s \in DOMAIN reqs : SingleExtract(s)
    \/ \E s \in DOMAIN reqs : SingleValidate(s)
    \/ \E s \in DOMAIN reqs : SingleFindDup(s)
    \/ \E s \in DOMAIN reqs : SingleFindRoles(s)
    \/ \E s \in DOMAIN reqs : SingleSave(s)
    \/ \E s \in DOMAIN reqs : SinglePopulate(s)
    \/ \E s \in DOMAIN reqs : Complete(s)

Spec == Init /\ [][Next]_vars

----------------------------------------------------------------------------
(* Properties of the upload routes (under Spec) *)

\* some persisted candidate references the stored file
Referenced(path) ==
    \E i \in 1..Len(candidates) : candidates[i].resumePath = path

\* the handler of slot s took a step
Stepped(s) == reqs'[s] # reqs[s]

InChunkLoop(r) ==
    r.kind = "bulk" /\ r.pc \in {"parse", "validate", "find_dup", "save"}

MissingFieldsEntry(r) ==
    [filename |-> <<r.f, r.idx + 1>>,
     error |-> "Could not extract required information (name, email)"]

DuplicateEntry(r) ==
    [filename |-> <<r.f, r.idx + 1>>,
     error |-> "Candidate with this email already exists"]

\* C2: once a file of a bulk upload has been processed, it is deleted if none
\* of its chunks was persisted and retained if at least one was, whatever
\* happened to its other chunks
C2_FileKeptIffChunkPersisted ==
    \A s \in DOMAIN reqs :
        reqs[s].kind = "bulk" =>
            \A i \in 1..Len(reqs[s].files) :
                (i < reqs[s].f \/ reqs[s].pc = "done") =>
                    (reqs[s].files[i] \in disk <=> Referenced(reqs[s].files[i]))

\* C3: within one batch a chunk whose email was persisted by an earlier chunk
\* of the same batch is not persisted again: when its duplicate lookup is
\* answered it fails as a duplicate (a storage error of the lookup fails the
\* file instead), and no owner ever holds two candidates with one email
C3_BatchDuplicateCheck ==
    /\ [](\A i, j \in 1..Len(candidates) :
             (i < j /\ candidates[i].createdBy = candidates[j].createdBy)
                => candidates[i].email # candidates[j].email)
    /\ [](\A s \in DOMAIN reqs :
             (reqs[s].kind = "bulk" /\ reqs[s].pc = "save") =>
                \A k \in 1..Len(reqs[s].results.successful) :
                    reqs[s].results.successful[k].email
                        # toLowerCase(reqs[s].candidateData.email))
    /\ [][\A s \in DOMAIN reqs :
             ( /\ reqs[s].kind = "bulk"
               /\ reqs[s].pc = "find_dup"
               /\ Stepped(s)
               /\ \E k \in 1..Len(reqs[s].results.successful) :
                     reqs[s].results.successful[k].email
                         = toLowerCase(reqs[s].candidateData.email) )
             => /\ candidates' = candidates
                /\ reqs'[s].pc # "save"
                /\ \/ reqs'[s].results.failed
                         = Append(reqs[s].results.failed, DuplicateEntry(reqs[s]))
                   \/ reqs'[s].results.failed
                         = Append(reqs[s].results.failed,
                                  [filename |-> <<reqs[s].f, 0>>,
                                   error |-> "storage error"])]_vars

\* C3 witness: every stored candidate comes from this batch, the first chunk
\* was persisted and a later chunk with its email failed as a duplicate
C3_Witness ==
    \E s \in DOMAIN reqs :
        /\ reqs[s].kind = "bulk"
        /\ reqs[s].pc = "done"
        /\ Len(candidates) = 1
        /\ Len(reqs[s].results.successful) = 1
        /\ reqs[s].results.successful[1].filename = <<1, 1>>
        /\ \E k \in 1..Len(reqs[s].results.failed) :
              /\ reqs[s].results.failed[k].filename = <<2, 1>>
              /\ reqs[s].results.failed[k].error
                    = "Candidate with this email already exists"

\* C4: every candidate persisted by an upload is scored against exactly the
\* active job roles owned by the uploading user
C4_ScoredAgainstOwnActiveRoles ==
    [][\A i \in (Len(candidates) + 1)..Len(candidates') :
          {candidates'[i].jobRoleScores[k].jobRole :
              k \in 1..Len(candidates'[i].jobRoleScores)}
            = {jr.id : jr \in {x \in jobRolesDb :
                                  x.isActive /\ x.createdBy = candidates'[i].createdBy}}]_vars

\* C5: in a bulk upload no failure of a file or of a chunk aborts the remaining
\* chunks of the file or the remaining files, and the request ends with the
\* summary of successes and failures
C5_FailureNeverAborts ==
    [][\A s \in DOMAIN reqs :
          (Stepped(s) /\ reqs[s].kind = "bulk"
              /\ reqs[s].pc \in {"extract", "split", "parse", "validate", "find_dup",
                                 "save"})
          => /\ (InChunkLoop(reqs[s]) /\ reqs[s].idx + 1 < reqs[s].chunks)
                   => /\ InChunkLoop(reqs'[s])
                      /\ reqs'[s].f = reqs[s].f
                      /\ reqs'[s].idx \in {reqs[s].idx, reqs[s].idx + 1}
             /\ reqs[s].f < Len(reqs[s].files) => reqs'[s].pc # "done"
             /\ reqs'[s].pc = "done"
                   => /\ reqs'[s].response.status = 200
                      /\ reqs'[s].response.results = reqs'[s].results]_vars

\* C6: no candidate is persisted with an empty name or email; a parse result
\* lacking one of them is rejected at validation, before the duplicate lookup,
\* scoring and persistence, and the rejection is reported with its reason
C6_RequiredFields ==
    /\ [](\A i \in 1..Len(candidates) :
             candidates[i].name # <<>> /\ candidates[i].email # <<>>)
    /\ [](\A s \in DOMAIN reqs :
             ( \/ reqs[s].pc \in {"find_dup", "save"}
               \/ reqs[s].kind = "single" /\ reqs[s].pc = "find_roles" ) =>
                /\ reqs[s].candidateData.name # <<>>
                /\ reqs[s].candidateData.email # <<>>)
    /\ [][\A s \in DOMAIN reqs :
             ( /\ reqs[s].pc = "validate"
               /\ Stepped(s)
               /\ \/ reqs[s].candidateData.name = <<>>
                  \/ reqs[s].candidateData.email = <<>> )
             => /\ candidates' = candidates
                /\ reqs[s].kind = "bulk" =>
                      reqs'[s].results.failed
                         = Append(reqs[s].results.failed, MissingFieldsEntry(reqs[s]))
                /\ reqs[s].kind = "single" =>
                      /\ reqs'[s].pc = "done"
                      /\ reqs'[s].response = Response(400,
                            "Could not extract required information (name, email) from resume")
                      /\ reqs[s].files[1] \notin disk']_vars

\* C6 witness: a bulk upload reported the chunk without name or email as
\* failed and persisted the next chunk of the same file
C6_Witness ==
    \E s \in DOMAIN reqs :
        /\ reqs[s].kind = "bulk"
        /\ reqs[s].pc = "done"
        /\ \E k \in 1..Len(reqs[s].results.failed) :
              reqs[s].results.failed[k]
                 = [filename |-> <<1, 1>>,
                    error |-> "Could not extract required information (name, email)"]
        /\ \E k \in 1..Len(reqs[s].results.successful) :
              reqs[s].results.successful[k].filename = <<1, 2>>
        /\ \A i \in 1..Len(candidates) : candidates[i].name = NameN

----------------------------------------------------------------------------
(* Further properties of calculateATSScore (under SpecATS) *)

\* the candidate with one more entry in its skills list
WithSkill(cd, skill) == [cd EXCEPT !.skills = @ \cup {skill}]

\* the result more is nowhere below the result less
NotBelow(more, less) ==
    /\ more.breakdown.skillsScore >= less.breakdown.skillsScore
    /\ more.score >= less.score
    /\ Len(more.matchedSkills) >= Len(less.matchedSkills)

\* C11: adding to the candidate's skills a skill that the role requires never
\* decreases the skills score nor the final score computed for that role
C11_Monotone ==
    (ATSReturned /\ Len(call.jobRole.requiredSkills) > 0) =>
        \A i \in 1..Len(call.jobRole.requiredSkills) :
            NotBelow(calculateATSScore(
                         WithSkill(call.candidateData,
                                   call.jobRole.requiredSkills[i].skill),
                         call.jobRole),
                     ret)

\* C11 witness: a required skill that is matched neither by the list nor by
\* the text; adding it raises the score, while another required skill is
\* already matched through the text
C11_Witness ==
    /\ ATSReturned
    /\ Len(call.jobRole.requiredSkills) = 2
    /\ Len(ret.matchedSkills) = 1
    /\ ret.matchedSkills[1].matchType = "text"
    /\ \E i \in 1..2 :
          calculateATSScore(WithSkill(call.candidateData,
                                      call.jobRole.requiredSkills[i].skill),
                            call.jobRole).score > ret.score

\* C19: for a role without required skills the result is the score 0 with no
\* matched skills, whatever the experience and the education; it is an
\* ordinary return value (no bonus, no breakdown)
C19_EmptyRoleScoresZero ==
    (ATSReturned /\ Len(call.jobRole.requiredSkills) = 0) =>
        /\ ret.score = 0
        /\ ret.matchedSkills = <<>>
        /\ DOMAIN ret = {"score", "matchedSkills"}

\* C19 witness: a role without required skills and a candidate whose years and
\* education would each earn a bonus
C19_Witness ==
    /\ ATSReturned
    /\ Len(call.jobRole.requiredSkills) = 0
    /\ call.jobRole.experienceLevel = "senior"
    /\ call.candidateData.experience.years >= 5
    /\ Len(call.candidateData.education) > 0
    /\ ret.score = 0

\* the degree text mentions one of the six subject words, in any letter case
MentionsSubject(degree) ==
    \E w \in RelevantWords :
        \E k \in 0..Len(degree) :
            /\ k + Len(w) <= Len(degree)
            /\ \A n \in 1..Len(w) : LowerChar(degree[k + n]) = w[n]

\* C20: the education bonus is 10 when some entry's degree mentions one of
\* computer, engineering, science, technology, business, management (letter
\* case ignored), else 5 when there is any education entry, else 0
C20_EducationBonus ==
    (ATSReturned /\ Len(call.jobRole.requiredSkills) > 0) =>
        LET education == call.candidateData.education
        IN  ret.breakdown.educationBonus =
               IF \E i \in 1..Len(education) : MentionsSubject(education[i].degree)
               THEN 10
               ELSE IF Len(education) > 0 THEN 5 ELSE 0

\* C20 witness: the degree 'BSc Science', written with a capital, earns 10
C20_Witness ==
    /\ ATSReturned
    /\ Len(call.jobRole.requiredSkills) > 0
    /\ Len(call.candidateData.education) > 0
    /\ \E i \in 1..Len(call.candidateData.education) :
          /\ MentionsSubject(call.candidateData.education[i].degree)
          /\ ~ (\E w \in RelevantWords :
                   includes(call.candidateData.education[i].degree, w))
    /\ ret.breakdown.educationBonus = 10

----------------------------------------------------------------------------
(* utils/resumeParser.js : splitMultipleResumes                             *)
(*                                                                         *)
(* Offsets are JavaScript's: 0-based, a slice [a, b) takes the characters  *)
(* at offsets a .. b-1.  The two regular expressions of the function are   *)
(* matched as the engine matches them: leftmost start, greedy runs,        *)
(* backtracking of the domain to its last usable dot, \b on both ends.     *)

\* each character with the one before it
withPrevious(text) == [i \in 1..Len(text) |-> <<text[i], IF i > 1 THEN text[i - 1] ELSE "">>]

\* a line feed that directly follows a carriage return belongs to its match
notConsumed(pair) == ~ (pair[1] = "\n" /\ pair[2] = "\r")

\* text.replace(/\r\n?/g, '\n')
normalizeNewlines_KeepCR(text) == text

normalizeNewlines(text) ==
    LET kept == SelectSeq(withPrevious(text), notConsumed)
    IN  [i \in 1..Len(kept) |-> IF kept[i][1] = "\r" THEN "\n" ELSE kept[i][1]]

Letter == {UpperAlpha[i] : i \in 1..26} \cup {LowerAlpha[i] : i \in 1..26}
Digit == {"0", "1", "2", "3", "4", "5", "6", "7", "8", "9"}
WordChar == Letter \cup Digit \cup {"_"}            \* \w
LocalChar == Letter \cup Digit \cup {".", "_", "%", "+", "-"}   \* [A-Za-z0-9._%+-]
DomainChar == Letter \cup Digit \cup {".", "-"}      \* [A-Za-z0-9.-]

\* \b at offset i
WordBoundary(t, i) == (At(t, i - 1) \in WordChar) # (At(t, i) \in WordChar)

\* the end (exclusive) of the greedy run of Class characters that starts at i
RunEnd(t, i, Class) ==
    CHOOSE p \in i..Len(t) :
        At(t, p) \notin Class /\ \A q \in i..(p - 1) : At(t, q) \in Class

\* the dots at which the domain of a match starting its domain at offset
\* from can end: a dot after a non-empty domain, followed by a run of two or
\* more letters that ends at a word boundary
DomainDots(t, from) ==
    {d \in (from + 1)..(RunEnd(t, from, DomainChar) - 1) :
        /\ At(t, d) = "."
        /\ RunEnd(t, d + 1, Letter) >= d + 3
        /\ At(t, RunEnd(t, d + 1, Letter)) \notin WordChar}

Max(S) == CHOOSE x \in S : \A y \in S : y <= x
Min(S) == CHOOSE x \in S : \A y \in S : x <= y

\* /\b[A-Za-z0-9._%+-]+@[A-Za-z0-9.-]+\.[A-Za-z]{2,}\b/ anchored at offset
\* i: the end (exclusive) of the match, or -1
emailMatchEnd(t, i) ==
    IF At(t, i) \notin LocalChar \/ ~ WordBoundary(t, i)
    THEN -1
    ELSE LET j == RunEnd(t, i, LocalChar)
         IN  IF At(t, j) # "@" \/ DomainDots(t, j + 1) = {}
             THEN -1
             ELSE RunEnd(t, Max(DomainDots(t, j + 1)) + 1, Letter)

\* the offset of the leftmost match that starts at or after from, or -1
emailSearch(t, from) ==
    LET starts == {i \in from..(Len(t) - 1) : emailMatchEnd(t, i) >= 0}
    IN  IF starts = {} THEN -1 ELSE Min(starts)

\* [...normalized.matchAll(emailRegex)].map(m => ({ index: m.index || 0 }))
RECURSIVE matchAll(_, _)
matchAll(t, from) ==
    LET i == emailSearch(t, from)
    IN  IF i < 0 THEN <<>>
        ELSE <<i>> \o matchAll(t, emailMatchEnd(t, i))

emailMatches(normalized) == matchAll(normalized, 0)

\* emailRegex.test(chunk): emailRegex carries the g flag, so the search
\* starts at its lastIndex and leaves lastIndex at the end of the match, or
\* at 0 when there is none
emailRegexTest(chunk, lastIndex) ==
    LET i == IF lastIndex > Len(chunk) THEN -1 ELSE emailSearch(chunk, lastIndex)
    IN  IF i < 0
        THEN [found |-> FALSE, lastIndex |-> 0]
        ELSE [found |-> TRUE, lastIndex |-> emailMatchEnd(chunk, i)]

HeaderMarkers == {Chars("name:"), Chars("role:"), Chars("contact:")}

\* headerRegex.test(s) with headerRegex = /(Name:|Role:|Contact:)/i
headerRegexTest(s) ==
    \E w \in HeaderMarkers :
        \E k \in 0..(Len(s) - Len(w)) :
            \A n \in 1..Len(w) : LowerChar(s[k + n]) = w[n]

\* normalized.split('\n')
RECURSIVE split(_)
split(t) ==
    IF \A i \in 1..Len(t) : t[i] # "\n"
    THEN <<t>>
    ELSE LET k == Min({i \in 1..Len(t) : t[i] = "\n"})
         IN  <<SubSeq(t, 1, k - 1)>> \o split(SubSeq(t, k + 1, Len(t)))

\* the offsets of the lines that carry a header marker
RECURSIVE headerIndices(_, _, _)
headerIndices(lines, n, runningIndex) ==
    IF n > Len(lines) THEN <<>>
    ELSE (IF headerRegexTest(lines[n]) THEN <<runningIndex>> ELSE <<>>)
         \o headerIndices(lines, n + 1, runningIndex + Len(lines[n]) + 1)

MinChunkLength == 100

\* chunk.length > 100
viable(chunk) == Len(chunk) > MinChunkLength

\* headers are grouped by 3 (Name, Role, Contact): one span per group
HeadersPerGroup == 3

\* span of the header group that starts at headers[i + 1], trimmed
headerSpan(normalized, headers, i) ==
    LET start == headers[i + 1]
        end == IF i + HeadersPerGroup < Len(headers)
               THEN headers[i + HeadersPerGroup + 1]
               ELSE Len(normalized)
    IN  trim(slice(normalized, start, end))

RECURSIVE headerChunks(_, _, _)
headerChunks(normalized, headers, i) ==
    IF i >= Len(headers) THEN <<>>
    ELSE (IF viable(headerSpan(normalized, headers, i))
          THEN <<headerSpan(normalized, headers, i)>>
          ELSE <<>>)
         \o headerChunks(normalized, headers, i + HeadersPerGroup)

\* String.prototype.lastIndexOf('\n\n', idx)
lastIndexOf_First(t, idx) ==
    LET found == {k \in 0..idx : At(t, k) = "\n" /\ At(t, k + 1) = "\n"}
    IN  IF found = {} THEN -1 ELSE Min(found)

lastIndexOf(t, idx) ==
    LET found == {k \in 0..idx : At(t, k) = "\n" /\ At(t, k + 1) = "\n"}
    IN  IF found = {} THEN -1 ELSE Max(found)

\* ensure some minimal distance
MinDistance == 50

RECURSIVE boundaries_NoDistance(_, _, _, _)
boundaries_NoDistance(normalized, emails, i, acc) ==
    IF i > Len(emails)
    THEN Append(acc, Len(normalized))
    ELSE LET idx == emails[i]
             before == lastIndexOf(normalized, idx)
             boundary == IF before >= 0 THEN before ELSE idx
         IN  boundaries_NoDistance(normalized, emails, i + 1, Append(acc, boundary))

RECURSIVE boundaries(_, _, _, _)
boundaries(normalized, emails, i, acc) ==
    IF i > Len(emails)
    THEN Append(acc, Len(normalized))
    ELSE LET idx == emails[i]
             before == lastIndexOf(normalized, idx)
             boundary == IF before > acc[Len(acc)] + MinDistance THEN before ELSE idx
         IN  boundaries(normalized, emails, i + 1, Append(acc, boundary))

\* the slice between two consecutive boundaries, trimmed
emailSpan(normalized, bs, i) == trim(slice(normalized, bs[i], bs[i + 1]))

\* the loop over the slices; lastIndex is emailRegex.lastIndex, which the
\* loop does not reset between slices
RECURSIVE emailChunks(_, _, _, _)
emailChunks(normalized, bs, i, lastIndex) ==
    IF i >= Len(bs) THEN <<>>
    ELSE LET chunk == emailSpan(normalized, bs, i)
         IN  IF ~ viable(chunk)
             THEN emailChunks(normalized, bs, i + 1, lastIndex)
             ELSE LET tested == emailRegexTest(chunk, lastIndex)
                  IN  (IF tested.found \/ headerRegexTest(chunk)
                       THEN <<chunk>> ELSE <<>>)
                      \o emailChunks(normalized, bs, i + 1, tested.lastIndex)

splitMultipleResumes(text) ==
    IF trim(text) = <<>>
    THEN <<>>
    ELSE LET normalized == normalizeNewlines(text)
             emails == emailMatches(normalized)
         IN  IF Len(emails) <= 1
             THEN LET headers == headerIndices(split(normalized), 1, 0)
                  IN  IF Len(headers) <= 1
                      THEN <<normalized>>
                      ELSE headerChunks(normalized, headers, 0)
             ELSE LET bs == boundaries(normalized, emails, 2, <<0>>)
                      chunks == emailChunks(normalized, bs, 1, 0)
                  IN  IF Len(chunks) > 0 THEN chunks ELSE <<normalized>>

----------------------------------------------------------------------------
(* Specification of splitMultipleResumes: the text of a document is a      *)
(* concatenation of blocks                                                 *)

MaxBlocks == 5      \* blocks per document

EmailBlockA == Chars("anna@x.io")       \* 9 characters
EmailBlockB == Chars("bobby@y.io")      \* 10 characters
\* 91 characters of resume body: no email, no header marker
BodyBlock ==
    Chars(" Built and shipped internal tools for the finance team and kept nightly reports running ok;")
ParagraphBlock == Chars(" \r\n\r\n")
HeaderBlock == Chars("Name: Al\n")

TextBlocks == {EmailBlockA, EmailBlockB, BodyBlock, ParagraphBlock, HeaderBlock}

RECURSIVE Concat(_)
Concat(blocks) ==
    IF blocks = <<>> THEN <<>> ELSE blocks[1] \o Concat(Tail(blocks))

DocumentTexts == {Concat(blocks) : blocks \in SeqsUpTo(TextBlocks, MaxBlocks)}

InitSplit ==
    /\ call \in [fn : {"splitMultipleResumes"}, text : DocumentTexts]
    /\ ret = NoRet
    /\ PipelineIdle

ApplySplit ==
    /\ call.fn = "splitMultipleResumes"
    /\ ret = NoRet
    /\ ret' = [chunks |-> splitMultipleResumes(call.text)]
    /\ UNCHANGED <<call, jobRolesDb, candidates, disk, reqs>>

NextSplit == ApplySplit

SpecSplit == InitSplit /\ [][NextSplit]_vars

SplitReturned == call.fn = "splitMultipleResumes" /\ ret # NoRet

----------------------------------------------------------------------------
(* Properties of splitMultipleResumes (under SpecSplit) *)

IsBlank(text) == \A i \in 1..Len(text) : text[i] \in WhiteSpace

\* C12: the document is never lost: the result is the empty sequence exactly
\* when the input text is empty or blank; any other text yields at least one
\* chunk, on the email path and on the header path alike
C12_NeverLosesDocument ==
    SplitReturned => (Len(ret.chunks) = 0 <=> IsBlank(call.text))

\* each character with the one after it
withNext(text) == [i \in 1..Len(text) |-> <<text[i], IF i < Len(text) THEN text[i + 1] ELSE "">>]

LoneOrNotCR(pair) == ~ (pair[1] = "\r" /\ pair[2] = "\n")

\* the text with every CR LF pair turned into LF, then every other CR too
CrLfToLf(text) ==
    LET kept == SelectSeq(withNext(text), LoneOrNotCR)
    IN  [i \in 1..Len(kept) |-> IF kept[i][1] = "\r" THEN "\n" ELSE kept[i][1]]

\* exactly one email address and no header marker in the text
OneEmailNoHeader ==
    /\ SplitReturned
    /\ Len(emailMatches(CrLfToLf(call.text))) = 1
    /\ ~ headerRegexTest(call.text)

\* C13 as stated: a text with exactly one email address and no header marker
\* yields exactly one chunk, equal to the newline-normalized input trimmed of
\* leading and trailing whitespace
C13_SingleChunkTrimmed ==
    OneEmailNoHeader => ret.chunks = <<trim(CrLfToLf(call.text))>>

\* C13 amended: a text with exactly one email address and no header marker
\* yields exactly one chunk, equal to the whole newline-normalized input,
\* leading and trailing whitespace included
C13_SingleChunkWhole ==
    OneEmailNoHeader => ret.chunks = <<CrLfToLf(call.text)>>

\* C13 witness: such a text with carriage returns and with whitespace around
\* it has come back as one chunk
C13_Witness ==
    /\ OneEmailNoHeader
    /\ \E i \in 1..Len(call.text) : call.text[i] = "\r"
    /\ call.text[1] \in WhiteSpace
    /\ Len(ret.chunks) = 1
    /\ ret.chunks[1][1] \in WhiteSpace

\* the spans the email path cuts at the boundaries bs, before the size test
EmailSpans(normalized, bs) ==
    [i \in 1..(Len(bs) - 1) |-> emailSpan(normalized, bs, i)]

\* the spans the header path cuts, one per group of headers
HeaderSpans(normalized, headers) ==
    [g \in 1..((Len(headers) + HeadersPerGroup - 1) \div HeadersPerGroup) |->
        headerSpan(normalized, headers, HeadersPerGroup * (g - 1))]

InSeq(x, seq) == \E i \in 1..Len(seq) : seq[i] = x

\* a span of the email path that only its size can discard: it carries a
\* header marker, or it is the first span and carries an email address
OnlySizeDecides(spans, i) ==
    \/ headerRegexTest(spans[i])
    \/ i = 1 /\ emailSearch(spans[i], 0) >= 0

\* the size rule with the least viable length n, on the header path
HeaderSizeRule(n, spans) ==
    /\ \A i \in 1..Len(ret.chunks) : Len(ret.chunks[i]) >= n
    /\ \A g \in 1..Len(spans) : Len(spans[g]) >= n <=> InSeq(spans[g], ret.chunks)

\* the size rule with the least viable length n, on the email path; when no
\* span is kept the chunk that comes back is the whole text, not a span
EmailSizeRule(n, spans) ==
    /\ (\E i \in 1..Len(spans) : InSeq(spans[i], ret.chunks)) =>
          \A i \in 1..Len(ret.chunks) : Len(ret.chunks[i]) >= n
    /\ \A i \in 1..Len(spans) :
          /\ Len(spans[i]) < n => ~ InSeq(spans[i], ret.chunks)
          /\ (Len(spans[i]) >= n /\ OnlySizeDecides(spans, i))
                => InSeq(spans[i], ret.chunks)

SizeRule(n) ==
    (SplitReturned /\ ~ IsBlank(call.text)) =>
        LET normalized == normalizeNewlines(call.text)
            emails == emailMatches(normalized)
            headers == headerIndices(split(normalized), 1, 0)
            bs == boundaries(normalized, emails, 2, <<0>>)
        IN  IF Len(emails) > 1
            THEN EmailSizeRule(n, EmailSpans(normalized, bs))
            ELSE Len(headers) > 1 => HeaderSizeRule(n, HeaderSpans(normalized, headers))

\* C14 as stated: when the text is split into spans, a span is discarded for
\* its size exactly when its trimmed length is below 100: a span of exactly
\* 100 characters is kept, and every chunk of a split has at least 100
C14_ViableFrom100 == SizeRule(100)

\* the emails are well separated: every email after the first is preceded by
\* a paragraph break more than 50 characters after the previous boundary,
\* and every resume is longer than 100 characters
WellSeparated(normalized, emails, bs) ==
    /\ Len(emails) > 1
    /\ \A i \in 2..Len(emails) :
          /\ lastIndexOf(normalized, emails[i]) > bs[i - 1] + 50
          /\ bs[i] = lastIndexOf(normalized, emails[i])
    /\ \A i \in 1..Len(emails) : Len(emailSpan(normalized, bs, i)) > 100

\* C15: a text of N > 1 well separated resumes comes back as exactly N
\* chunks, each holding exactly one of the N email addresses
C15_OneChunkPerResume ==
    (SplitReturned /\ ~ IsBlank(call.text)) =>
        LET normalized == normalizeNewlines(call.text)
            emails == emailMatches(normalized)
            bs == boundaries(normalized, emails, 2, <<0>>)
        IN  WellSeparated(normalized, emails, bs) =>
                /\ Len(ret.chunks) = Len(emails)
                /\ \A i \in 1..Len(ret.chunks) : Len(emailMatches(ret.chunks[i])) = 1

\* the chunks from the i-th on stand in the text t at or after offset from,
\* one after the other, without overlap
RECURSIVE InDocumentOrder(_, _, _, _)
InDocumentOrder(t, chunks, i, from) ==
    IF i > Len(chunks) THEN TRUE
    ELSE LET places == {o \in from..(Len(t) - Len(chunks[i])) :
                           \A n \in 1..Len(chunks[i]) : t[o + n] = chunks[i][n]}
         IN  /\ places # {}
             /\ InDocumentOrder(t, chunks, i + 1, Min(places) + Len(chunks[i]))

\* 0 = bs[1] < bs[2] < ... < bs[last] = length
StrictlyIncreasing(bs, length) ==
    /\ bs[1] = 0
    /\ bs[Len(bs)] = length
    /\ \A i \in 1..(Len(bs) - 1) : bs[i] < bs[i + 1]

\* C24: the chunks are in document order and come from pairwise disjoint
\* spans of the normalized text; on the email path the boundaries are
\* strictly increasing from 0 to the length of the text
C24_DocumentOrder ==
    (SplitReturned /\ ~ IsBlank(call.text)) =>
        LET normalized == normalizeNewlines(call.text)
            emails == emailMatches(normalized)
        IN  /\ InDocumentOrder(CrLfToLf(call.text), ret.chunks, 1, 0)
            /\ Len(emails) > 1 =>
                  StrictlyIncreasing(boundaries(normalized, emails, 2, <<0>>),
                                     Len(CrLfToLf(call.text)))

\* C24 witness: a text with two email addresses has come back as two chunks,
\* the slice before the boundary and the slice after it
C24_Witness ==
    /\ SplitReturned
    /\ Len(ret.chunks) = 2
    /\ LET normalized == normalizeNewlines(call.text)
           emails == emailMatches(normalized)
           bs == boundaries(normalized, emails, 2, <<0>>)
       IN  /\ Len(emails) = 2
           /\ ret.chunks[1] = trim(slice(normalized, 0, bs[2]))
           /\ ret.chunks[2] = trim(slice(normalized, bs[2], Len(normalized)))

\* the slice contains an email address, wherever the search starts
ContainsEmail(chunk) == emailSearch(chunk, 0) >= 0

\* every span of more than 100 characters with an email address is returned
EmailSpansKept(spans) ==
    \A i \in 1..Len(spans) :
        (Len(spans[i]) > 100 /\ ContainsEmail(spans[i])) => InSeq(spans[i], ret.chunks)

\* C25: on the email path a slice of more than 100 trimmed characters that
\* contains an email address is returned, whatever its position and whatever
\* slices were tested before it
C25_SliceWithEmailKept ==
    (SplitReturned /\ ~ IsBlank(call.text)) =>
        LET normalized == normalizeNewlines(call.text)
            emails == emailMatches(normalized)
        IN  Len(emails) > 1 =>
                EmailSpansKept(EmailSpans(normalized,
                                          boundaries(normalized, emails, 2, <<0>>)))

\* the offset of the nearest double newline at or before idx, or -1
NearestBreak(t, idx) ==
    IF \E k \in 0..idx : At(t, k) = "\n" /\ At(t, k + 1) = "\n"
    THEN CHOOSE k \in 0..idx :
            /\ At(t, k) = "\n" /\ At(t, k + 1) = "\n"
            /\ \A j \in (k + 1)..idx : ~ (At(t, j) = "\n" /\ At(t, j + 1) = "\n")
    ELSE -1

\* the boundaries bs follow the rule for the emails of the text t
BoundaryRule(t, emails, bs) ==
    /\ Len(bs) = Len(emails) + 1
    /\ bs[1] = 0
    /\ bs[Len(bs)] = Len(t)
    /\ \A i \in 2..Len(emails) :
          bs[i] = IF NearestBreak(t, emails[i]) > bs[i - 1] + 50
                  THEN NearestBreak(t, emails[i])
                  ELSE emails[i]

\* the chunks that came back are the whole text or slices between boundaries
CutAt(t, bs, chunks) ==
    \/ chunks = <<t>>
    \/ \A c \in 1..Len(chunks) :
          \E i \in 1..(Len(bs) - 1) : chunks[c] = trim(slice(t, bs[i], bs[i + 1]))

\* C26: on the email path the boundary of each email after the first is the
\* nearest double newline at or before it when that lies more than 50
\* characters past the previous boundary, else the email's own offset; the
\* first boundary is 0 and the last is the length of the text
C26_BoundaryRule ==
    (SplitReturned /\ ~ IsBlank(call.text)) =>
        LET normalized == normalizeNewlines(call.text)
            emails == emailMatches(normalized)
            bs == boundaries(normalized, emails, 2, <<0>>)
        IN  Len(emails) > 1 =>
                /\ BoundaryRule(CrLfToLf(call.text), emails, bs)
                /\ CutAt(CrLfToLf(call.text), bs, ret.chunks)

\* C26 witness: the second email follows two paragraph breaks, the boundary
\* is the nearer one, and the chunk before it has come back
C26_Witness ==
    /\ SplitReturned
    /\ Len(ret.chunks) >= 1
    /\ LET normalized == normalizeNewlines(call.text)
           emails == emailMatches(normalized)
           bs == boundaries(normalized, emails, 2, <<0>>)
       IN  /\ Len(emails) = 2
           /\ bs[2] = NearestBreak(normalized, emails[2])
           /\ \E k \in 0..(bs[2] - 1) : At(normalized, k) = "\n" /\ At(normalized, k + 1) = "\n"
           /\ ret.chunks[1] = trim(slice(normalized, 0, bs[2]))

----------------------------------------------------------------------------
(* utils/resumeParser.js : parseResumeData, name and experience years       *)

\* the end (exclusive) of the greedy run of characters outside Excluded
RunEndNot(t, i, Excluded) ==
    CHOOSE p \in i..Len(t) :
        /\ (p = Len(t) \/ At(t, p) \in Excluded)
        /\ \A q \in i..(p - 1) : At(t, q) \notin Excluded

\* the word w stands at offset i of t
startsWith(t, i, w) == \A n \in 1..Len(w) : At(t, i + n - 1) = w[n]

NewlineChar == {"\n", "\r"}

\* where the capture ([^\n\r]+) of /Name:\s*([^\n\r]+)/i starts when the
\* label stands at offset k, or -1: \s* is greedy and gives characters back
\* only when the text ends before the capture can start
nameCaptureStart(t, k) ==
    LET p == k + 5
        w == RunEnd(t, p, WhiteSpace)
        back == {q \in p..(w - 1) : At(t, q) \notin NewlineChar}
    IN  IF w < Len(t) THEN w
        ELSE IF back = {} THEN -1 ELSE Max(back)

\* text.match(/Name:\s*([^\n\r]+)/i): the leftmost label after which the
\* capture is not empty
nameLabelMatch(text) ==
    LET lower == toLowerCase(text)
        labels == {k \in 0..(Len(text) - 5) :
                      startsWith(lower, k, Chars("name:")) /\ nameCaptureStart(text, k) >= 0}
    IN  IF labels = {}
        THEN [found |-> FALSE, capture |-> <<>>]
        ELSE LET from == nameCaptureStart(text, Min(labels))
             IN  [found |-> TRUE,
                  capture |-> slice(text, from, RunEndNot(text, from, NewlineChar))]

\* text.match(/^[A-Za-z\s]{2,50}$/): the whole text is 2 to 50 letters and
\* whitespace characters; the pattern has no capture group
plainNameMatch(text) ==
    /\ Len(text) >= 2 /\ Len(text) <= 50
    /\ \A i \in 1..Len(text) : text[i] \in Letter \cup WhiteSpace

\* the loop over namePatterns: both patterns are regular expressions, so
\* pattern.test is a function for both and each is applied to the whole text
\* with text.match; the name is match[1] of the first pattern that has one.
\* The second pattern has no capture group: its match[1] is undefined
\* whether or not it matches, and the scan of the first lines is never run
extractName(text) ==
    LET first == nameLabelMatch(text)
        second == [found |-> plainNameMatch(text), capture |-> <<>>]
    IN  IF first.found /\ first.capture # <<>> THEN trim(first.capture)
        ELSE IF second.found /\ second.capture # <<>> THEN trim(second.capture)
        ELSE <<>>

\* parseInt of a run of decimal digits
RECURSIVE parseInt(_)
parseInt(digits) ==
    IF digits = <<>> THEN 0
    ELSE 10 * parseInt(SubSeq(digits, 1, Len(digits) - 1))
         + (CHOOSE d \in 0..9 : Chars("0123456789")[d + 1] = digits[Len(digits)])

\* the offsets at which a run of digits starts
digitRuns(t) == {i \in 0..(Len(t) - 1) : At(t, i) \in Digit /\ At(t, i - 1) \notin Digit}

\* the rest of /(\d+)[\s]*(?:years?|yrs?)[\s]*(?:of\s*)?(?:experience|exp)/gi
\* matches at offset e of the lower-cased text
yearsOfExperienceFollows(lower, e) ==
    LET a == RunEnd(lower, e, WhiteSpace)
        units == {u \in {Chars("years"), Chars("year"), Chars("yrs"), Chars("yr")} :
                     startsWith(lower, a, u)}
    IN  \E u \in units :
            LET b == RunEnd(lower, a + Len(u), WhiteSpace)
            IN  \/ startsWith(lower, b, Chars("exp"))
                \/ /\ startsWith(lower, b, Chars("of"))
                   /\ startsWith(lower, RunEnd(lower, b + 2, WhiteSpace), Chars("exp"))

\* the numbers of all matches of the first pattern
yearsOfExperienceMentions(text) ==
    LET lower == toLowerCase(text)
    IN  {parseInt(slice(text, i, RunEnd(text, i, Digit))) :
            i \in {r \in digitRuns(text) :
                      yearsOfExperienceFollows(lower, RunEnd(text, r, Digit))}}

\* the numbers of all matches of /experience:[\s]*(\d+)[\s]*years?/gi
experienceLabelMentions(text) ==
    LET lower == toLowerCase(text)
        labels == {k \in 0..(Len(text) - 11) : startsWith(lower, k, Chars("experience:"))}
        number(k) == RunEnd(text, k + 11, WhiteSpace)
    IN  {parseInt(slice(text, number(k), RunEnd(text, number(k), Digit))) :
            k \in {l \in labels :
                      /\ At(text, number(l)) \in Digit
                      /\ startsWith(lower,
                                    RunEnd(text, RunEnd(text, number(l), Digit), WhiteSpace),
                                    Chars("year"))}}

\* the loop over experiencePatterns: the first pattern that yields a
\* positive number decides, and the loop breaks
experienceYears(text) ==
    LET first == {y \in yearsOfExperienceMentions(text) : y > 0}
        second == {y \in experienceLabelMentions(text) : y > 0}
    IN  IF first # {} THEN Max(first)
        ELSE IF second # {} THEN Max(second)
        ELSE 0

\* the offsets of the line feeds in the whitespace after the label at k
labelNewlines(t, k) ==
    {j \in (k + 10)..(RunEnd(t, k + 10, WhiteSpace) - 1) : At(t, j) = "\n"}

\* the lookahead (?=\n\s*\n|$) holds at offset q
sectionEnds(t, q) ==
    \/ q = Len(t)
    \/ /\ At(t, q) = "\n"
       /\ \E r \in (q + 1)..(RunEnd(t, q + 1, WhiteSpace) - 1) : At(t, r) = "\n"

\* match[1] of text.match(/Education:[\s]*\n([\s\S]*?)(?=\n\s*\n|$)/i), or
\* the empty string: the whitespace after the leftmost label that is followed
\* by a line feed is consumed up to its last line feed, and the lazy capture
\* runs to the first blank line or to the end of the text
educationSection(text) ==
    LET lower == toLowerCase(text)
        labels == {k \in 0..(Len(text) - 10) :
                      startsWith(lower, k, Chars("education:"))
                      /\ labelNewlines(text, k) # {}}
    IN  IF labels = {} THEN <<>>
        ELSE LET from == Max(labelNewlines(text, Min(labels))) + 1
             IN  slice(text, from, Min({q \in from..Len(text) : sectionEnds(text, q)}))

\* the loop over educationPatterns, which holds the labelled section only
educationText_WholeChunk(text) ==
    IF educationSection(text) # <<>> THEN educationSection(text) ELSE text

educationText(text) == educationSection(text)

educationKeywords ==
    {Chars("bachelor"), Chars("master"), Chars("phd"), Chars("degree"),
     Chars("university"), Chars("college"), Chars("institute"), Chars("mba"),
     Chars("b.tech"), Chars("m.tech")}

\* educationKeywords.some(keyword => line.toLowerCase().includes(keyword))
hasEducationKeyword(line) ==
    \E keyword \in educationKeywords : includes(toLowerCase(line), keyword)

\* data.education: one entry per line of the section that has a keyword
extractEducation(text) ==
    IF educationText(text) = <<>> THEN <<>>
    ELSE LET eduLines == SelectSeq(split(educationText(text)), hasEducationKeyword)
         IN  [i \in 1..Len(eduLines) |->
                 [degree |-> trim(eduLines[i]), institution |-> <<>>, year |-> <<>>]]

\* the name, the experience and the education of the parsed data
parseResumeData(text) ==
    [name |-> extractName(text),
     experience |-> [years |-> experienceYears(text)],
     education |-> extractEducation(text)]

----------------------------------------------------------------------------
(* Specification of parseResumeData: the text of a chunk is made of lines   *)

MaxLines == 3       \* lines per chunk

ChunkLines ==
    {Chars("Name: Jane Doe"), Chars("Jane Doe"), Chars("anna@x.io"),
     Chars("3 years of experience"), Chars("Experience: 10 years"),
     Chars("12 yrs exp"), Chars("NAME:"), <<>>,
     Chars("Education:\n Bachelor of Arts "), Chars("Master of Science")}

\* lines.join('\n')
RECURSIVE join(_)
join(lines) ==
    IF Len(lines) = 0 THEN <<>>
    ELSE IF Len(lines) = 1 THEN lines[1]
    ELSE lines[1] \o <<"\n">> \o join(Tail(lines))

ChunkTexts == {join(lines) : lines \in SeqsUpTo(ChunkLines, MaxLines)}

InitParse ==
    /\ call \in [fn : {"parseResumeData"}, text : ChunkTexts]
    /\ ret = NoRet
    /\ PipelineIdle

ApplyParse ==
    /\ call.fn = "parseResumeData"
    /\ ret = NoRet
    /\ ret' = parseResumeData(call.text)
    /\ UNCHANGED <<call, jobRolesDb, candidates, disk, reqs>>

NextParse == ApplyParse

SpecParse == InitParse /\ [][NextParse]_vars

ParseReturned == call.fn = "parseResumeData" /\ ret # NoRet

----------------------------------------------------------------------------
(* Properties of parseResumeData (under SpecParse) *)

\* C16: the experience years are the largest number over all mentions of
\* both families together ('N years/yrs (of) experience' and 'experience: N
\* years'), 0 when there is none: a larger number mentioned only in the
\* second family is not hidden by a smaller one in the first
C16_MaxOverBothFamilies ==
    ParseReturned =>
        ret.experience.years =
            Max(yearsOfExperienceMentions(call.text)
                \cup experienceLabelMentions(call.text) \cup {0})

\* the lines of the text that are not blank
NonBlankLines(text) == SelectSeq(split(text), LAMBDA l : ~ IsBlank(l))

\* a plain name line: 2 to 50 letters and spaces, no '@'
IsPlainNameLine(line) ==
    /\ Len(line) >= 2 /\ Len(line) <= 50
    /\ \A n \in 1..Len(line) : line[n] \in Letter \cup {" "}

\* the indices, among the first 5 non-blank lines, of the plain name lines
PlainNameLines(text) ==
    {i \in 1..MathMin(5, Len(NonBlankLines(text))) :
        IsPlainNameLine(NonBlankLines(text)[i])}

\* C17: the name is (a) the captured text of a 'Name:' line, or otherwise
\* (b) the first of the first 5 non-blank lines that is 2 to 50 letters and
\* spaces without '@'; it is empty only if neither rule matches
C17_NameRules ==
    ParseReturned =>
        ret.name =
            IF nameLabelMatch(call.text).found
            THEN trim(nameLabelMatch(call.text).capture)
            ELSE IF PlainNameLines(call.text) # {}
                 THEN NonBlankLines(call.text)[Min(PlainNameLines(call.text))]
                 ELSE <<>>

----------------------------------------------------------------------------
(* The empty-text branch of POST /bulk-resumes (under Spec) *)

EmptyTextEntry(f) ==
    [filename |-> <<f, 0>>, error |-> "Could not extract text from resume"]

\* the entries of a result list that belong to file f of the request
EntriesOf(entries, f) == {k \in 1..Len(entries) : entries[k].filename[1] = f}

\* C18: a file of a bulk upload whose extracted text is empty or only
\* whitespace fails at the extraction stage: no chunk of it is parsed or
\* persisted, the file is deleted, and the results of the batch hold exactly
\* one failure and no success for that file
C18_EmptyTextFails ==
    /\ [][\A s \in DOMAIN reqs :
             ( /\ reqs[s].kind = "bulk"
               /\ reqs[s].pc = "split"
               /\ IsBlank(reqs[s].extractedText)
               /\ Stepped(s) )
             => /\ reqs'[s].pc \in {"extract", "done"}
                /\ reqs'[s].pc = "extract" => reqs'[s].f = reqs[s].f + 1
                /\ candidates' = candidates
                /\ reqs[s].files[reqs[s].f] \notin disk'
                /\ reqs'[s].results.failed =
                      Append(reqs[s].results.failed, EmptyTextEntry(reqs[s].f))
                /\ reqs'[s].results.successful = reqs[s].results.successful]_vars
    /\ [](\A s \in DOMAIN reqs :
             reqs[s].kind = "bulk" =>
                \A f \in 1..Len(reqs[s].files) :
                    InSeq(EmptyTextEntry(f), reqs[s].results.failed)
                    => /\ Cardinality(EntriesOf(reqs[s].results.failed, f)) = 1
                       /\ EntriesOf(reqs[s].results.successful, f) = {}
                       /\ reqs[s].files[f] \notin disk
                       /\ ~ Referenced(reqs[s].files[f])
                       /\ reqs[s].pc = "done" =>
                             /\ reqs[s].response.results = reqs[s].results
                             /\ reqs[s].response.summary.failed
                                   = Len(reqs[s].results.failed)
                             /\ reqs[s].response.summary.successful
                                   = Len(reqs[s].results.successful))

\* C18 witness: a bulk upload of two files has ended; the first file had no
\* text and is reported once, as failed, and a chunk of the second was saved
C18_Witness ==
    \E s \in DOMAIN reqs :
        /\ reqs[s].kind = "bulk"
        /\ reqs[s].pc = "done"
        /\ Len(reqs[s].files) = 2
        /\ reqs[s].results.failed = <<EmptyTextEntry(1)>>
        /\ Len(reqs[s].results.successful) > 0
        /\ reqs[s].files[1] \notin disk
        /\ reqs[s].response.summary.failed = 1

----------------------------------------------------------------------------
(* Education entries of parseResumeData (under SpecParse) *)

\* the text carries an 'Education:' label, in any letter case
HasEducationLabel(text) ==
    \E k \in 0..(Len(text) - 10) :
        \A n \in 1..10 : LowerChar(text[k + n]) = Chars("education:")[n]

\* a line of the text, trimmed, that has a degree keyword
IsDegreeLine(text, degree) ==
    \E i \in 1..Len(split(text)) :
        trim(split(text)[i]) = degree /\ hasEducationKeyword(degree)

----------------------------------------------------------------------------
(* The order of the steps of POST /bulk-resumes (under Spec) *)

\* the step of slot s appends one entry to results.failed
FailingStep(s) ==
    /\ \/ BulkExtract(s)
       \/ BulkSplit(s)
       \/ BulkValidate(s)
       \/ BulkFindDup(s)
       \/ BulkSave(s)
    /\ Len(reqs'[s].results.failed) = Len(reqs[s].results.failed) + 1

\* parseResumeData can return a result that the validation then rejects
ParseThenFail(s) ==
    BulkParse(s) /\ MissingRequired(reqs'[s].candidateData)

\* the handler of slot s stays at file f and chunk idx and moves to pc
SameChunk(s, pc) ==
    /\ reqs'[s].pc = pc
    /\ reqs'[s].f = reqs[s].f
    /\ reqs'[s].idx = reqs[s].idx
    /\ reqs'[s].chunks = reqs[s].chunks

\* the handler of slot s leaves the current chunk: next chunk, next file or
\* the response
LeavesChunk(s) ==
    \/ /\ reqs'[s].pc = "parse"
       /\ reqs'[s].f = reqs[s].f
       /\ reqs'[s].idx = reqs[s].idx + 1
       /\ reqs'[s].idx < reqs[s].chunks
    \/ /\ reqs'[s].pc = "extract"
       /\ reqs'[s].f = reqs[s].f + 1
    \/ /\ reqs'[s].pc = "done"
       /\ reqs[s].f = Len(reqs[s].files)

\* the handler of slot s gives up the current file
LeavesFile(s) ==
    /\ Len(reqs'[s].results.failed) = Len(reqs[s].results.failed) + 1
    /\ \/ reqs'[s].pc = "extract" /\ reqs'[s].f = reqs[s].f + 1
       \/ reqs'[s].pc = "done" /\ reqs[s].f = Len(reqs[s].files)

\* the steps of one file in their order
StepOrder(s) ==
    LET r == reqs[s]
    IN  /\ r.pc = "extract" =>
              \/ SameChunk(s, "split") /\ candidates' = candidates
              \/ LeavesFile(s) /\ candidates' = candidates
        /\ r.pc = "split" =>
              \/ /\ reqs'[s].pc = "parse"
                 /\ reqs'[s].f = r.f
                 /\ reqs'[s].idx = 0
                 /\ reqs'[s].chunks >= 1
                 /\ ~ noText(r.extractedText)
                 /\ candidates' = candidates
              \/ LeavesFile(s) /\ candidates' = candidates
        /\ r.pc = "parse" =>
              /\ SameChunk(s, "validate")
              /\ reqs'[s].scoringResults = Nothing
              /\ candidates' = candidates
        /\ r.pc = "validate" =>
              /\ candidates' = candidates
              /\ reqs'[s].scoringResults = Nothing
              /\ IF MissingRequired(r.candidateData)
                 THEN /\ LeavesChunk(s)
                      /\ Len(reqs'[s].results.failed) = Len(r.results.failed) + 1
                 ELSE SameChunk(s, "find_dup")
        /\ r.pc = "find_dup" =>
              /\ candidates' = candidates
              /\ \/ /\ SameChunk(s, "save")
                    /\ ~ CandidateExists(r.candidateData.email, r.user)
                    /\ reqs'[s].scoringResults
                          = calculateAllJobRoleScores(r.candidateData, r.jobRoles)
                 \/ /\ LeavesChunk(s)
                    /\ CandidateExists(r.candidateData.email, r.user)
                    /\ Len(reqs'[s].results.failed) = Len(r.results.failed) + 1
                 \/ LeavesFile(s)
        /\ r.pc = "save" =>
              \/ /\ LeavesChunk(s)
                 /\ Len(candidates') = Len(candidates) + 1
                 /\ candidates'[Len(candidates')].email
                       = SchemaEmail(r.candidateData.email)
                 /\ candidates'[Len(candidates')].bestMatchScore
                       = r.scoringResults.bestMatchScore
                 /\ Len(reqs'[s].results.successful)
                       = Len(r.results.successful) + 1
              \/ LeavesFile(s) /\ candidates' = candidates

\* C23: the steps of each uploaded file occur only in the order extract,
\* split, then per chunk parse, validate, duplicate lookup with scoring, save;
\* a chunk is scored and persisted only after its name/email validation and
\* its duplicate lookup have passed, no chunk is processed when no text was
\* extracted, and every step can end in a failure (at once, or for a parsed
\* chunk through the validation that follows)
C23_StepOrder ==
    /\ [][\A s \in DOMAIN reqs :
             (Stepped(s) /\ reqs[s].kind = "bulk") => StepOrder(s)]_vars
    /\ [][candidates' # candidates =>
             \E s \in DOMAIN reqs : Stepped(s) /\ reqs[s].pc = "save"]_vars
    /\ [](\A s \in DOMAIN reqs :
             reqs[s].kind = "bulk" =>
                /\ InChunkLoop(reqs[s]) =>
                      /\ ~ noText(reqs[s].extractedText)
                      /\ reqs[s].idx < reqs[s].chunks
                /\ reqs[s].pc \in {"find_dup", "save"} =>
                      ~ MissingRequired(reqs[s].candidateData)
                /\ reqs[s].pc = "save" <=> reqs[s].scoringResults # Nothing)
    /\ [](\A s \in DOMAIN reqs :
             reqs[s].kind = "bulk" =>
                /\ reqs[s].pc \in {"extract", "split", "find_dup", "save"}
                      => ENABLED FailingStep(s)
                /\ reqs[s].pc = "validate" =>
                      (ENABLED FailingStep(s) <=> MissingRequired(reqs[s].candidateData))
                /\ reqs[s].pc = "parse" => ENABLED ParseThenFail(s))

\* C23 witness: a bulk upload whose first file failed at extraction, so that
\* none of its chunks was processed, and whose second file went through all
\* steps and was persisted
C23_Witness ==
    \E s \in DOMAIN reqs :
        /\ reqs[s].kind = "bulk"
        /\ reqs[s].pc = "done"
        /\ reqs[s].results.failed
              = <<[filename |-> <<1, 0>>, error |-> "Failed to extract text"]>>
        /\ Len(reqs[s].results.successful) = 1
        /\ reqs[s].results.successful[1].filename = <<2, 1>>
        /\ Referenced(reqs[s].files[2])

----------------------------------------------------------------------------
(* The result of calculateAllJobRoleScores as the routes store it (under   *)
(* SpecAll)                                                                 *)

\* the scores of a list of score entries
ScoresOf(jobRoleScores) ==
    {jobRoleScores[i].score : i \in 1..Len(jobRoleScores)}

\* jobRoleScores, bestMatchJobRole and bestMatchScore agree with each other
BestMatchAgrees(jobRoleScores, bestMatchJobRole, bestMatchScore) ==
    /\ bestMatchScore \in ScoresOf(jobRoleScores) \cup {0}
    /\ \A x \in ScoresOf(jobRoleScores) : x <= bestMatchScore
    /\ bestMatchJobRole = NullId <=> bestMatchScore = 0
    /\ bestMatchJobRole # NullId =>
          \E i \in 1..Len(jobRoleScores) :
              /\ jobRoleScores[i].jobRole = bestMatchJobRole
              /\ jobRoleScores[i].score = bestMatchScore

\* C29: calculateAllJobRoleScores returns one score entry per supplied role in
\* input order, each holding the score of calculateATSScore for that role;
\* bestMatchScore is the maximum of the scores (0 for no roles), and
\* bestMatchJobRole is null exactly when bestMatchScore is 0 and otherwise a
\* role whose score is bestMatchScore; the fields a candidate document keeps
\* of the result agree in the same way
C29_BestMatchConsistent ==
    AllReturned =>
        /\ Len(ret.jobRoleScores) = Len(call.jobRoles)
        /\ \A i \in 1..Len(call.jobRoles) :
              /\ ret.jobRoleScores[i].jobRole = call.jobRoles[i].id
              /\ ret.jobRoleScores[i].score
                    = calculateATSScore(call.candidateData, call.jobRoles[i]).score
        /\ BestMatchAgrees(ret.jobRoleScores, ret.bestMatchJobRole, ret.bestMatchScore)
        /\ Len(SchemaScores(ret.jobRoleScores)) = Len(call.jobRoles)
        /\ \A i \in 1..Len(call.jobRoles) :
              SchemaScores(ret.jobRoleScores)[i].jobRole = call.jobRoles[i].id
        /\ BestMatchAgrees(SchemaScores(ret.jobRoleScores),
                           ret.bestMatchJobRole, ret.bestMatchScore)

\* C29 witness: three roles with three different scores, the best one in the
\* middle and the last one above 0
C29_Witness ==
    /\ AllReturned
    /\ Len(call.jobRoles) = 3
    /\ ret.jobRoleScores[1].score < ret.jobRoleScores[3].score
    /\ ret.jobRoleScores[3].score < ret.jobRoleScores[2].score
    /\ ret.jobRoleScores[3].score > 0
    /\ ret.bestMatchJobRole = call.jobRoles[2].id
    /\ ret.bestMatchScore = ret.jobRoleScores[2].score

----------------------------------------------------------------------------
(* routes/candidates.js and routes/jobRoles.js: the requests that change    *)
(* candidates and job roles.  Each handler is one step: the documents it    *)
(* reads and writes are touched by no step of an upload in between, and a   *)
(* rejected storage call ends it with status 500 and the writes made so far *)

validStatuses == {"new", "reviewed", "shortlisted", "rejected", "hired"}

\* the status values a client sends: two of the enumeration and one outside
StatusInputs == {"reviewed", "hired", "archived"}

\* the ids a client names: those of the stored documents and one of none
CandidateTargets == {candidates[i].id : i \in 1..Len(candidates)} \cup {NullId}

JobRoleTargets == {jr.id : jr \in jobRolesDb} \cup {NullId}

\* Candidate.findById(id): the positions of the document (none or one)
findCandidateById(id) == {i \in 1..Len(candidates) : candidates[i].id = id}

\* JobRole.findById(id)
findJobRoleById(id) == {jr \in jobRolesDb : jr.id = id}

\* the handler of slot s has answered a request of user u
Answered(s, kind, u, target, body, status, message) ==
    [reqs EXCEPT ![s] =
        [IdleReq(reqs[s].served) EXCEPT !.kind = kind, !.user = u,
                                        !.target = target, !.body = body,
                                        !.pc = "done",
                                        !.response = Response(status, message)]]

\* PATCH /candidates/:id/status
PatchStatus_AnyStatus(s) ==
    /\ reqs[s].kind = "idle"
    /\ reqs[s].served < MaxReqs
    /\ \E u \in Users : \E id \in CandidateTargets : \E status \in StatusInputs :
          \E i \in findCandidateById(id) :
             /\ candidates[i].createdBy = u
             /\ candidates' = [candidates EXCEPT ![i].status = status]
             /\ reqs' = Answered(s, "status", u, id, [status |-> status], 200,
                                 "Candidate status updated successfully")
    /\ UNCHANGED <<call, ret, jobRolesDb, disk>>

PatchStatus(s) ==
    /\ reqs[s].kind = "idle"
    /\ reqs[s].served < MaxReqs
    /\ \E u \in Users : \E id \in CandidateTargets : \E status \in StatusInputs :
          LET answer(code, message) ==
                  Answered(s, "status", u, id, [status |-> status], code, message)
              found == findCandidateById(id)
          IN  IF status \notin validStatuses
              THEN /\ reqs' = answer(400, "Invalid status")
                   /\ UNCHANGED candidates
              ELSE \/ /\ reqs' = answer(500, "Error updating candidate status")
                      /\ UNCHANGED candidates
                   \/ /\ \/ found = {}
                         \/ \E i \in found : candidates[i].createdBy # u
                      /\ reqs' = answer(404, "Candidate not found")
                      /\ UNCHANGED candidates
                   \/ \E i \in found :
                         /\ candidates[i].createdBy = u
                         /\ candidates' = [candidates EXCEPT ![i].status = status]
                         /\ reqs' = answer(200, "Candidate status updated successfully")
    /\ UNCHANGED <<call, ret, jobRolesDb, disk>>

\* DELETE /candidates/:id: fs.unlinkSync(candidate.resumePath) when the file
\* exists, then Candidate.findByIdAndDelete
DeleteCandidate(s) ==
    /\ reqs[s].kind = "idle"
    /\ reqs[s].served < MaxReqs
    /\ \E u \in Users : \E id \in CandidateTargets :
          LET answer(code, message) ==
                  Answered(s, "delete_candidate", u, id, Nothing, code, message)
              found == findCandidateById(id)
          IN  \/ /\ reqs' = answer(500, "Error deleting candidate")
                 /\ UNCHANGED <<candidates, disk>>
              \/ /\ \/ found = {}
                    \/ \E i \in found : candidates[i].createdBy # u
                 /\ reqs' = answer(404, "Candidate not found")
                 /\ UNCHANGED <<candidates, disk>>
              \/ \E i \in found :
                    /\ candidates[i].createdBy = u
                    /\ disk' = disk \ {candidates[i].resumePath}
                    /\ \/ /\ reqs' = answer(500, "Error deleting candidate")
                          /\ UNCHANGED candidates
                       \/ /\ candidates' = SelectSeq(candidates, LAMBDA c : c.id # id)
                          /\ reqs' = answer(200, "Candidate deleted successfully")
    /\ UNCHANGED <<call, ret, jobRolesDb>>

\* the body of the rescoring loops: the candidate document with the scores
\* against jobRoles assigned
RescoredCandidate(candidate, jobRoles) ==
    LET candidateData == [skills |-> candidate.skills,
                          extractedText |-> candidate.extractedText,
                          experience |-> candidate.experience,
                          education |-> candidate.education]
        scoringResults == calculateAllJobRoleScores(candidateData, jobRoles)
    IN  [candidate EXCEPT !.jobRoleScores = SchemaScores(scoringResults.jobRoleScores),
                          !.bestMatchJobRole = scoringResults.bestMatchJobRole,
                          !.bestMatchScore = scoringResults.bestMatchScore]

\* Candidate.find({ createdBy }): the positions of the documents of user u
candidatesOf(u) == {i \in 1..Len(candidates) : candidates[i].createdBy = u}

\* the collection after the loop has saved the first k candidates of user u
Rescored(u, jobRoles, k) ==
    [i \in 1..Len(candidates) |->
        IF i \in candidatesOf(u) /\ Cardinality({j \in candidatesOf(u) : j <= i}) <= k
        THEN RescoredCandidate(candidates[i], jobRoles)
        ELSE candidates[i]]

\* the rescoring loop of POST and PUT /job-roles over the roles of collection
\* db: it ends after the last save (done) or with the rejected call
Rescoring(u, db, done, failed) ==
    LET jobRoles == InIdOrder({jr \in db : jr.isActive /\ jr.createdBy = u})
        n == Cardinality(candidatesOf(u))
    IN  \E k \in 0..n :
           /\ candidates' = Rescored(u, jobRoles, k)
           /\ reqs' = IF k = n THEN done ELSE failed

\* the _id of a new job role: an ObjectId that nothing holds
NextJobRoleId ==
    LET stored == {jr.id : jr \in jobRolesDb}
        scored == UNION {{candidates[i].jobRoleScores[k].jobRole :
                             k \in 1..Len(candidates[i].jobRoleScores)} :
                         i \in 1..Len(candidates)}
        found == UNION {{reqs[s].jobRoles[k].id : k \in 1..Len(reqs[s].jobRoles)} :
                        s \in DOMAIN reqs}
        requested == {reqs[s].target : s \in DOMAIN reqs}
        held == stored \cup scored \cup found \cup requested \cup {0}
    IN  1 + CHOOSE m \in held : \A x \in held : x <= m

\* the bodies of POST /job-roles: a new title, a title user 1 holds, no title
CreateBodies ==
    { [title |-> <<"q","a">>, requiredSkills |-> <<[skill |-> <<"N","a","n">>, weight |-> 10]>>],
      [title |-> <<"J","s">>, requiredSkills |-> <<[skill |-> <<"J","s">>, weight |-> 10]>>],
      [requiredSkills |-> <<[skill |-> <<"q">>, weight |-> 10]>>] }

\* POST /job-roles
CreateJobRole(s) ==
    /\ reqs[s].kind = "idle"
    /\ reqs[s].served < MaxReqs
    /\ \E u \in Users : \E body \in CreateBodies :
          LET answer(code, message) ==
                  Answered(s, "create_role", u, NullId, body, code, message)
              jobRole == [id |-> NextJobRoleId, title |-> body.title,
                          createdBy |-> u, isActive |-> TRUE,
                          requiredSkills |-> body.requiredSkills,
                          experienceLevel |-> "mid"]
          IN  IF "title" \notin DOMAIN body
              THEN /\ reqs' = answer(400,
                         "Title, description, required skills, and department are required")
                   /\ UNCHANGED <<jobRolesDb, candidates>>
              ELSE \/ /\ reqs' = answer(500, "Error creating job role")
                      /\ UNCHANGED <<jobRolesDb, candidates>>
                   \/ /\ \E jr \in jobRolesDb : jr.title = body.title /\ jr.createdBy = u
                      /\ reqs' = answer(400, "Job role with this title already exists")
                      /\ UNCHANGED <<jobRolesDb, candidates>>
                   \/ /\ ~ \E jr \in jobRolesDb : jr.title = body.title /\ jr.createdBy = u
                      /\ jobRolesDb' = jobRolesDb \cup {jobRole}
                      /\ Rescoring(u, jobRolesDb \cup {jobRole},
                                   answer(201, "Job role created successfully"),
                                   answer(500, "Error creating job role"))
    /\ UNCHANGED <<call, ret, disk>>

\* the bodies of PUT /job-roles/:id: deactivate, new skills, new title
UpdateBodies ==
    { [isActive |-> FALSE],
      [requiredSkills |-> <<[skill |-> <<"N","a","n">>, weight |-> 10]>>],
      [title |-> <<"q">>] }

\* the assignments of PUT /job-roles/:id to the loaded document
UpdatedJobRole(jobRole, body) ==
    [jobRole EXCEPT
        !.title = IF "title" \in DOMAIN body THEN body.title ELSE @,
        !.requiredSkills = IF "requiredSkills" \in DOMAIN body
                           THEN body.requiredSkills ELSE @,
        !.isActive = IF "isActive" \in DOMAIN body THEN body.isActive ELSE @]

\* PUT /job-roles/:id
UpdateJobRole(s) ==
    /\ reqs[s].kind = "idle"
    /\ reqs[s].served < MaxReqs
    /\ \E u \in Users : \E id \in JobRoleTargets : \E body \in UpdateBodies :
          LET answer(code, message) ==
                  Answered(s, "update_role", u, id, body, code, message)
              found == findJobRoleById(id)
          IN  \/ /\ reqs' = answer(500, "Error updating job role")
                 /\ UNCHANGED <<jobRolesDb, candidates>>
              \/ /\ \/ found = {}
                    \/ \E jobRole \in found : jobRole.createdBy # u
                 /\ reqs' = answer(404, "Job role not found")
                 /\ UNCHANGED <<jobRolesDb, candidates>>
              \/ \E jobRole \in found :
                    LET taken == /\ "title" \in DOMAIN body
                                 /\ body.title # jobRole.title
                                 /\ \E jr \in jobRolesDb :
                                       /\ jr.title = body.title
                                       /\ jr.createdBy = u
                                       /\ jr.id # id
                        db == (jobRolesDb \ {jobRole}) \cup {UpdatedJobRole(jobRole, body)}
                    IN  /\ jobRole.createdBy = u
                        /\ IF taken
                           THEN /\ reqs' = answer(400, "Job role with this title already exists")
                                /\ UNCHANGED <<jobRolesDb, candidates>>
                           ELSE /\ jobRolesDb' = db
                                /\ IF "requiredSkills" \in DOMAIN body
                                   THEN Rescoring(u, db,
                                           answer(200, "Job role updated successfully"),
                                           answer(500, "Error updating job role"))
                                   ELSE /\ reqs' = answer(200, "Job role updated successfully")
                                        /\ UNCHANGED candidates
    /\ UNCHANGED <<call, ret, disk>>

\* Candidate.countDocuments({ createdBy, $or: [{ bestMatchJobRole }, { 'jobRoleScores.jobRole' }] })
candidateCount(u, id) ==
    Cardinality({i \in candidatesOf(u) :
        \/ candidates[i].bestMatchJobRole = id
        \/ \E k \in 1..Len(candidates[i].jobRoleScores) :
              candidates[i].jobRoleScores[k].jobRole = id})

\* DELETE /job-roles/:id
DeleteJobRole(s) ==
    /\ reqs[s].kind = "idle"
    /\ reqs[s].served < MaxReqs
    /\ \E u \in Users : \E id \in JobRoleTargets :
          LET answer(code, message) ==
                  Answered(s, "delete_role", u, id, Nothing, code, message)
              found == findJobRoleById(id)
          IN  \/ /\ reqs' = answer(500, "Error deleting job role")
                 /\ UNCHANGED jobRolesDb
              \/ /\ \/ found = {}
                    \/ \E jobRole \in found : jobRole.createdBy # u
                 /\ reqs' = answer(404, "Job role not found")
                 /\ UNCHANGED jobRolesDb
              \/ \E jobRole \in found :
                    /\ jobRole.createdBy = u
                    /\ IF candidateCount(u, id) > 0
                       THEN /\ reqs' = answer(400, "Cannot delete job role")
                            /\ UNCHANGED jobRolesDb
                       ELSE /\ jobRolesDb' = jobRolesDb \ {jobRole}
                            /\ reqs' = answer(200, "Job role deleted successfully")
    /\ UNCHANGED <<call, ret, candidates, disk>>

----------------------------------------------------------------------------
(* Specification of the portal: one connection uploads while another one    *)
(* sends a request that changes candidates or job roles                     *)

UploadSlots == {1}
AdminSlots == {2}

InitPortal ==
    /\ call = NoCall
    /\ ret = NoRet
    /\ jobRolesDb = JobRoleDocs
    /\ candidates = <<EarlierCandidate(jobRolesDb)>>
    /\ disk = {0}
    /\ reqs = [s \in UploadSlots \cup AdminSlots |-> IdleReq(0)]

NextPortal ==
    \/ \E s \in UploadSlots : BulkReceive(s)
    \/ \E s \in UploadSlots : BulkFindRoles(s)
    \/ \E s \in UploadSlots : BulkExtract(s)
    \/ \E s \in UploadSlots : BulkSplit(s)
    \/ \E s \in UploadSlots : BulkParse(s)
    \/ \E s \in UploadSlots : BulkValidate(s)
    \/ \E s \in UploadSlots : BulkFindDup(s)
    \/ \E s \in UploadSlots : BulkSave(s)
    \/ \E s \in UploadSlots : SingleReceive(s)
    \/ \E s \in UploadSlots : SingleExtract(s)
    \/ \E s \in UploadSlots : SingleValidate(s)
    \/ \E s \in UploadSlots : SingleFindDup(s)
    \/ \E s \in UploadSlots : SingleFindRoles(s)
    \/ \E s \in UploadSlots : SingleSave(s)
    \/ \E s \in UploadSlots : SinglePopulate(s)
    \/ \E s \in AdminSlots : PatchStatus(s)
    \/ \E s \in AdminSlots : DeleteCandidate(s)
    \/ \E s \in AdminSlots : CreateJobRole(s)
    \/ \E s \in AdminSlots : UpdateJobRole(s)
    \/ \E s \in AdminSlots : DeleteJobRole(s)
    \/ \E s \in DOMAIN reqs : Complete(s)

SpecPortal == InitPortal /\ [][NextPortal]_vars

----------------------------------------------------------------------------
(* Properties of the candidates and job roles (under SpecPortal) *)

StoredIds(docs) == {docs[i].id : i \in 1..Len(docs)}

\* the handler of slot s is one of the two upload routes
Uploading(s) == reqs[s].kind \in {"bulk", "single"}

\* C22: a candidate document written by an upload (single or bulk) has status
\* "new" when it is stored, no step of an upload changes the status of a
\* stored candidate, and the status of every stored candidate is one of new,
\* reviewed, shortlisted, rejected, hired
C22_StatusNewThenEnum ==
    /\ [][\A s \in DOMAIN reqs :
             (Stepped(s) /\ Uploading(s)) =>
                /\ \A j \in 1..Len(candidates') :
                      candidates'[j].id \notin StoredIds(candidates)
                         => candidates'[j].status = "new"
                /\ \A i \in 1..Len(candidates) :
                      \E j \in 1..Len(candidates') :
                         /\ candidates'[j].id = candidates[i].id
                         /\ candidates'[j].status = candidates[i].status]_vars
    /\ [](\A i \in 1..Len(candidates) :
             candidates[i].status \in {"new", "reviewed", "shortlisted",
                                       "rejected", "hired"})

\* C22 witness: the status of the earlier candidate was set to hired, and a
\* bulk upload that was running meanwhile stored a candidate with status new
C22_Witness ==
    /\ \E s \in AdminSlots :
          /\ reqs[s].kind = "status"
          /\ reqs[s].response.status = 200
    /\ \E s \in UploadSlots :
          /\ reqs[s].kind = "bulk"
          /\ reqs[s].pc = "done"
          /\ Len(reqs[s].results.successful) = 1
    /\ Len(candidates) = 2
    /\ candidates[1].status = "hired"
    /\ candidates[2].status = "new"

\* C28: the resumePath of every stored candidate names a stored file, and the
\* deletion of a candidate removes no file that a remaining candidate
\* references
C28_ResumeFilesKept ==
    /\ [](\A i \in 1..Len(candidates) : candidates[i].resumePath \in disk)
    /\ [][\A s \in DOMAIN reqs :
             (Stepped(s) /\ reqs'[s].kind = "delete_candidate") =>
                \A j \in 1..Len(candidates') :
                    candidates'[j].resumePath \in disk
                       => candidates'[j].resumePath \in disk']_vars

\* the job roles a candidate document references
RolesReferenced(candidate) ==
    {candidate.jobRoleScores[k].jobRole : k \in 1..Len(candidate.jobRoleScores)}
        \cup ({candidate.bestMatchJobRole} \ {NullId})

\* C30: every job role that a stored candidate references in bestMatchJobRole
\* or jobRoleScores is stored, and a DELETE of a job role that some candidate
\* references is answered with an error and changes neither the job roles nor
\* the candidates
C30_JobRolesKept ==
    /\ [](\A i \in 1..Len(candidates) :
             RolesReferenced(candidates[i]) \subseteq {jr.id : jr \in jobRolesDb})
    /\ [][\A s \in DOMAIN reqs :
             ( /\ Stepped(s)
               /\ reqs'[s].kind = "delete_role"
               /\ \E i \in 1..Len(candidates) :
                     reqs'[s].target \in RolesReferenced(candidates[i]) )
             => /\ reqs'[s].response.status >= 400
                /\ jobRolesDb' = jobRolesDb
                /\ candidates' = candidates]_vars

----------------------------------------------------------------------------
(* Specification of two concurrent uploads: the handlers of two connections *)
(* interleave at their awaited storage calls; one connection serves both    *)
(* upload routes, the other one POST /resume                                *)

InitConcurrent ==
    /\ call = NoCall
    /\ ret = NoRet
    /\ jobRolesDb = JobRoleDocs
    /\ candidates = <<>>
    /\ disk = {}
    /\ reqs = [s \in {1, 2} |-> IdleReq(0)]

NextConcurrent ==
    \/ \E s \in UploadSlots : BulkReceive(s)
    \/ \E s \in DOMAIN reqs : BulkFindRoles(s)
    \/ \E s \in DOMAIN reqs : BulkExtract(s)
    \/ \E s \in DOMAIN reqs : BulkSplit(s)
    \/ \E s \in DOMAIN reqs : BulkParse(s)
    \/ \E s \in DOMAIN reqs : BulkValidate(s)
    \/ \E s \in DOMAIN reqs : BulkFindDup(s)
    \/ \E s \in DOMAIN reqs : BulkSave(s)
    \/ \E s \in DOMAIN reqs : SingleReceive(s)
    \/ \E s \in DOMAIN reqs : SingleExtract(s)
    \/ \E s \in DOMAIN reqs : SingleValidate(s)
    \/ \E s \in DOMAIN reqs : SingleFindDup(s)
    \/ \E s \in DOMAIN reqs : SingleFindRoles(s)
    \/ \E s \in DOMAIN reqs : SingleSave(s)
    \/ \E s \in DOMAIN reqs : SinglePopulate(s)
    \/ \E s \in DOMAIN reqs : Complete(s)

SpecConcurrent == InitConcurrent /\ [][NextConcurrent]_vars

\* C27: while two uploads of one owner interleave at their storage reads and
\* writes, no two stored candidates have the same owner and the same email
C27_UniqueEmailPerOwner ==
    \A i, j \in 1..Len(candidates) :
        (i < j /\ candidates[i].createdBy = candidates[j].createdBy)
            => candidates[i].email # candidates[j].email

============================================================================
